---- MODULE Spec2Model ----
(***************************************************************************)
(* Attendance pipeline of the face-recognition attendance server:          *)
(*   face_engine.py  FaceEngine.process_attendance (liveness gate,         *)
(*                   feature extraction, flat scan of known_faces)         *)
(*   app.py          absen (the per-day attendance state machine),         *)
(*                   submit_leave / update_leave_status (IZIN records),    *)
(*                   get_attendance_status, calculate_distance,            *)
(*                   is_within_radius                                      *)
(*   models.py       Attendance (unique_daily_attendance), LeaveRequest    *)
(*   face_cache.py   FaceCache (entries, file, eviction, integrity hash,   *)
(*                   lock) and the engine's index known_faces              *)
(*                                                                         *)
(* Spec is the attendance pipeline, CacheSpec the calls on the cache and   *)
(* the engine one at a time, WritersSpec concurrent add and remove,        *)
(* PersistenceSpec the cache with file writes and backups that fail,       *)
(* EngineSpec a request inside process_attendance beside enrollments,      *)
(* FunctionSpec single calls of the matcher loop and of                    *)
(* get_attendance_status.                                                  *)
(*                                                                         *)
(* Requests are handled by independent worker threads.  A handler is cut   *)
(* into steps at the places where it reads or writes the shared database,  *)
(* so that two handlers can interleave between a query and a commit.       *)
(*                                                                         *)
(* Numbers.  Times are minutes since midnight.  EAR values and the         *)
(* liveness threshold are scaled by 100.  Feature vectors are integer      *)
(* vectors of Euclidean norm 5, so a dot product of two of them is 25 times  *)
(* their cosine similarity; similarities and the recognition threshold     *)
(* are scaled by 25.  Coordinates are                                      *)
(* offsets from the company location in units of GridMeters.               *)
(***************************************************************************)
EXTENDS Integers, Sequences, FiniteSets, TLC

VARIABLES
    attendances,     \* table attendances: set of rows
    nextId,          \* next autoincrement primary key of attendances
    leave_requests,  \* table leave_requests: set of rows
    known_faces,     \* FaceEngine.known_faces: ordered id -> vector mapping
    today,           \* date.today(); the model covers one day
    clock,           \* datetime.now(), minutes since midnight
    requests,        \* number of HTTP requests received so far
    pc,              \* per worker: position inside absen
    result,          \* per worker: dict returned by process_attendance
    stages,          \* per worker: pipeline stages process_attendance ran
    local,           \* per worker: local variables of absen
    response,        \* the JSON response absen sent last
    owner,           \* the owner's update_leave_status call in progress
    cache,           \* FaceCache.cache: entries in dict order
    file,            \* contents of FaceCache.cache_file
    backup,          \* contents of the file written by FaceCache.backup
    outcome,         \* what the last call on the cache or engine returned
    history,         \* per identity: vector last added, time last accessed
    lock,            \* thread holding FaceCache.lock
    thread,          \* per cache thread: the call it is executing
    invoked          \* calls made by the cache threads so far

\* state of the attendance handlers
attVars == <<attendances, nextId, leave_requests, today, requests, pc,
             result, stages, local, response, owner>>

\* state of the encoding cache and of the threads calling it
cacheVars == <<cache, file, backup, outcome, history, lock, thread, invoked>>

vars == <<attendances, nextId, leave_requests, known_faces, today, clock,
          requests, pc, result, stages, local, response, owner,
          cache, file, backup, outcome, history, lock, thread, invoked>>

\* Python None / SQL NULL in a numeric field (times, ids, coordinates and
\* similarities of the model are never negative)
None == 0 - 1
\* None where a vector is expected
NoEmbedding == <<>>
\* float('inf'), as a squared distance
Infinity == 1000000000

-----------------------------------------------------------------------------
(* Bounds of the model *)

NumWorkers == 2
MaxRequests == 3
MaxDay == 1
MaxLeaves == 1

Workers == 1 .. NumWorkers
Dates == 1 .. MaxDay

-----------------------------------------------------------------------------
(* Configuration and directory data *)

\* Config.FACE_RECOGNITION_THRESHOLD = 0.6, scaled by 25
FACE_RECOGNITION_THRESHOLD == 15
\* Config.LIVENESS_THRESHOLD = 0.15, scaled by 100
LIVENESS_THRESHOLD == 15
\* Config.GPS_RADIUS_METERS = 100
GPS_RADIUS_METERS == 100
\* metres per coordinate unit
GridMeters == 50

\* Config.COMPANY_LATITUDE / COMPANY_LONGITUDE: the origin of the grid
CompanyLocation == [latitude |-> 0, longitude |-> 0]

\* rows of table employees (manage_employee only soft-deletes)
Employees == {1, 2}

\* rows of table shift_settings: PAGI 08:00 tolerance 10, SIANG 08:00 tolerance 5
ShiftSetting ==
    [PAGI  |-> [jam_masuk |-> 8 * 60, toleransi_menit |-> 10],
     SIANG |-> [jam_masuk |-> 8 * 60, toleransi_menit |-> 5]]

\* Employee.shift_id
EmployeeShift == [e \in Employees |-> IF e = 1 THEN "PAGI" ELSE "SIANG"]

\* instants of the day at which something happens: 08:05 and 08:06
ClockValues == {8 * 60 + d : d \in {5, 6}}
FirstClock == 8 * 60 + 5

\* <<latitude, longitude>> form fields of a request: both missing or empty
\* (read as ""), the company's location, a place 150 m away.  A field is
\* absent or a decimal number; on any other text float() raises and the
\* request ends in the handler's except clause before its branch.
GeoForms == {<<"", "">>, <<"0", "0">>, <<"3", "0">>}

-----------------------------------------------------------------------------
(* face_engine.py *)

Dot(u, v) == u[1] * v[1] + u[2] * v[2]

\* a camera frame, reduced to what the pipeline derives from it:
\*   face  whether FaceMesh returns multi_face_landmarks
\*   ear   the eye aspect ratio of the landmarks (x100)
\*   emb   what _extract_face_embedding returns (None or a unit vector)
Probes == {<<5, 0>>, <<3, 4>>, <<-5, 0>>, <<0, -5>>}
Images ==
    {[face |-> FALSE, ear |-> 0, emb |-> NoEmbedding]}
    \cup {[face |-> TRUE, ear |-> LIVENESS_THRESHOLD, emb |-> <<5, 0>>]}
    \cup {[face |-> TRUE, ear |-> 2 * LIVENESS_THRESHOLD, emb |-> e] :
              e \in Probes \cup {NoEmbedding}}

PipelineResult(employee_id, similarity, liveness_ok) ==
    [employee_id |-> employee_id, similarity |-> similarity,
     liveness_ok |-> liveness_ok]

\* the starting values of best_match_id and best_similarity
NoMatch == [id |-> None, similarity |-> 0]

\* one pass of the loop body with the first entry above the threshold kept
ScanStepFirstAbove(best, entry, face_embedding, recognition_threshold) ==
    LET similarity == Dot(face_embedding, entry.vec)
    IN  IF best.id = None /\ similarity > recognition_threshold
        THEN [id |-> entry.id, similarity |-> similarity]
        ELSE best

\* one pass of the loop body asking for a margin above the threshold
ScanStepWithMargin(best, entry, face_embedding, recognition_threshold) ==
    LET similarity == Dot(face_embedding, entry.vec)
    IN  IF similarity > best.similarity
           /\ similarity > recognition_threshold + 1
        THEN [id |-> entry.id, similarity |-> similarity]
        ELSE best

\* one pass of the loop body with an equally similar later entry taking
\* the place of the best one
ScanStepLastWins(best, entry, face_embedding, recognition_threshold) ==
    LET similarity == Dot(face_embedding, entry.vec)
    IN  IF similarity >= best.similarity
           /\ similarity > recognition_threshold
        THEN [id |-> entry.id, similarity |-> similarity]
        ELSE best

\* one pass of the body of "for emp_id, known_vector in
\* self.known_faces.items()": best is [id, similarity]
ScanStep(best, entry, face_embedding, recognition_threshold) ==
    LET similarity == Dot(face_embedding, entry.vec)
    IN  IF similarity > best.similarity
           /\ similarity > recognition_threshold
        THEN [id |-> entry.id, similarity |-> similarity]
        ELSE best

\* the loop over self.known_faces.items() from entry i on, for an engine
\* whose recognition_threshold is the one given
RECURSIVE Recognize(_, _, _, _, _)
Recognize(faces, i, face_embedding, best, recognition_threshold) ==
    IF i > Len(faces) THEN best
    ELSE Recognize(faces, i + 1, face_embedding,
             ScanStep(best, faces[i], face_embedding, recognition_threshold),
             recognition_threshold)

\* the loop with the threshold FaceEngine.__init__ takes from Config
ScanKnownFaces(faces, i, face_embedding, best) ==
    Recognize(faces, i, face_embedding, best, FACE_RECOGNITION_THRESHOLD)

\* FaceEngine.process_attendance with liveness evaluated after extraction
\* and matching
process_attendance_late_liveness(image, faces) ==
    IF ~image.face
    THEN [result |-> PipelineResult(None, 0, FALSE), stages |-> <<"detect">>]
    ELSE IF image.emb = NoEmbedding
    THEN [result |-> PipelineResult(None, 0, image.ear > LIVENESS_THRESHOLD),
          stages |-> <<"detect", "extract", "liveness">>]
    ELSE LET best == ScanKnownFaces(faces, 1, image.emb,
                         [id |-> None, similarity |-> 0])
         IN  [result |-> PipelineResult(best.id, best.similarity,
                             image.ear > LIVENESS_THRESHOLD),
              stages |-> <<"detect", "extract", "scan", "liveness">>]

\* FaceEngine.process_attendance: the returned dict and the stages it ran
process_attendance(image, faces) ==
    IF ~image.face
    THEN [result |-> PipelineResult(None, 0, FALSE), stages |-> <<"detect">>]
    ELSE LET ear == image.ear
             liveness_ok == ear > LIVENESS_THRESHOLD
         IN  IF ~liveness_ok
             THEN [result |-> PipelineResult(None, 0, FALSE),
                   stages |-> <<"detect", "liveness">>]
             ELSE IF image.emb = NoEmbedding
             THEN [result |-> PipelineResult(None, 0, TRUE),
                   stages |-> <<"detect", "liveness", "extract">>]
             ELSE LET best == ScanKnownFaces(faces, 1, image.emb,
                                  [id |-> None, similarity |-> 0])
                  IN  [result |-> PipelineResult(best.id, best.similarity, TRUE),
                       stages |-> <<"detect", "liveness", "extract", "scan">>]

-----------------------------------------------------------------------------
(* app.py: helpers *)

\* calculate_distance: None coordinates give infinity; otherwise the square
\* of the planar distance in metres, which orders points as the haversine
\* distance does at this scale
calculate_distance(lat1, lon1, lat2, lon2) ==
    IF None \in {lat1, lon1, lat2, lon2} THEN Infinity
    ELSE ((lat2 - lat1) * (lat2 - lat1) + (lon2 - lon1) * (lon2 - lon1))
             * GridMeters * GridMeters

is_within_radius(lat1, lon1, lat2, lon2, radius_meters) ==
    LET distance == calculate_distance(lat1, lon1, lat2, lon2)
    IN  distance <= radius_meters * radius_meters

Hour(t) == t \div 60
Minute(t) == t % 60

\* get_attendance_status with the tolerance bound itself counted as late
get_attendance_status_strict(check_in_time, shift_start_time, tolerance_minutes) ==
    IF check_in_time = None THEN "ALPA"
    ELSE LET check_in_minutes == Hour(check_in_time) * 60 + Minute(check_in_time)
             shift_start_minutes ==
                 Hour(shift_start_time) * 60 + Minute(shift_start_time)
         IN  IF check_in_minutes < shift_start_minutes + tolerance_minutes
             THEN "HADIR"
             ELSE "TERLAMBAT"

get_attendance_status(check_in_time, shift_start_time, tolerance_minutes) ==
    IF check_in_time = None THEN "ALPA"
    ELSE LET check_in_minutes == Hour(check_in_time) * 60 + Minute(check_in_time)
             shift_start_minutes ==
                 Hour(shift_start_time) * 60 + Minute(shift_start_time)
         IN  IF check_in_minutes <= shift_start_minutes + tolerance_minutes
             THEN "HADIR"
             ELSE "TERLAMBAT"

\* float() of a decimal string
Float(s) == CASE s = "0" -> 0 [] s = "3" -> 3

\* lat = float(lat) if lat else None
ParseCoord(v) == IF v = "" THEN None ELSE Float(v)

-----------------------------------------------------------------------------
(* models.py: table attendances *)

AttendanceRow(id, employee_id, tanggal, check_in, check_out, status, latitude, longitude, liveness_ok, similarity) ==
    [id |-> id, employee_id |-> employee_id, tanggal |-> tanggal,
     check_in |-> check_in, check_out |-> check_out, status |-> status,
     latitude |-> latitude, longitude |-> longitude,
     liveness_ok |-> liveness_ok, similarity |-> similarity]

\* Attendance.query.filter_by(employee_id=..., tanggal=...)
FilterBy(rows, employee_id, tanggal) ==
    {a \in rows : a.employee_id = employee_id /\ a.tanggal = tanggal}

\* INSERT with no uniqueness constraint on the table
InsertAllowedNoConstraint(rows, new_rows) == TRUE

\* UniqueConstraint('employee_id', 'tanggal'): whether the INSERT of new_rows
\* passes; a refused INSERT raises IntegrityError in db.session.commit()
InsertAllowed(rows, new_rows) ==
    /\ \A n \in new_rows : FilterBy(rows, n.employee_id, n.tanggal) = {}
    /\ \A n, m \in new_rows :
           (n.employee_id = m.employee_id /\ n.tanggal = m.tanggal) => n = m

\* UPDATE attendances SET ... WHERE id = ...
UpdateRow(rows, id, check_out, latitude, longitude) ==
    {IF a.id = id
     THEN [a EXCEPT !.check_out = check_out, !.latitude = latitude,
                    !.longitude = longitude]
     ELSE a : a \in rows}

-----------------------------------------------------------------------------
(* app.py: absen *)

Json(code, success, action, message) ==
    [code |-> code, success |-> success, action |-> action,
     message |-> message]

NoResponse == Json(0, FALSE, "", "")
NoResult == PipelineResult(None, 0, FALSE)
NoAttendance == <<>>
NoLocal == [employee_id |-> None, today |-> None, now |-> None,
            attendance |-> NoAttendance]

\* step 4 of absen without the "if not employee_id" test
absen_validation_no_identity_test(res) ==
    IF ~res.liveness_ok
    THEN Json(400, FALSE, "REJECTED", "Liveness check failed")
    ELSE IF res.employee_id \notin Employees
    THEN Json(404, FALSE, "", "Employee not found")
    ELSE NoResponse

\* steps 4 and 5 of absen up to the employee lookup: the rejection sent, or
\* NoResponse when the request goes on to the attendance table
absen_validation(res) ==
    IF ~res.liveness_ok
    THEN Json(400, FALSE, "REJECTED", "Liveness check failed")
    ELSE IF res.employee_id \in {None, 0}
    THEN Json(400, FALSE, "REJECTED", "Face not recognized")
    ELSE IF res.employee_id \notin Employees
    THEN Json(404, FALSE, "", "Employee not found")
    ELSE NoResponse

\* the check-in branch, writing check_out together with check_in
absen_check_in_and_out(rows, id, employee_id, tanggal, now, lat, lon, similarity) ==
    LET new_attendance ==
            AttendanceRow(id, employee_id, tanggal, now, now, "HADIR",
                          lat, lon, TRUE, similarity)
    IN  IF InsertAllowed(rows, {new_attendance})
        THEN [rows |-> rows \cup {new_attendance},
              response |-> Json(200, TRUE, "CHECK_IN", "")]
        ELSE [rows |-> rows,
              response |-> Json(500, FALSE, "", "Internal server error")]

\* the check-in branch, refusing coordinates outside the company radius
absen_check_in_geofenced(rows, id, employee_id, tanggal, now, lat, lon, similarity) ==
    LET new_attendance ==
            AttendanceRow(id, employee_id, tanggal, now, None, "HADIR",
                          lat, lon, TRUE, similarity)
    IN  IF ~is_within_radius(lat, lon, CompanyLocation.latitude,
                             CompanyLocation.longitude, GPS_RADIUS_METERS)
        THEN [rows |-> rows,
              response |-> Json(400, FALSE, "REJECTED", "Outside radius")]
        ELSE IF InsertAllowed(rows, {new_attendance})
        THEN [rows |-> rows \cup {new_attendance},
              response |-> Json(200, TRUE, "CHECK_IN", "")]
        ELSE [rows |-> rows,
              response |-> Json(500, FALSE, "", "Internal server error")]

\* the "if not attendance:" branch recording the status of a missing
\* check-in time
absen_check_in_alpa(rows, id, employee_id, tanggal, now, lat, lon, similarity) ==
    LET new_attendance ==
            AttendanceRow(id, employee_id, tanggal, now, None, "ALPA",
                          lat, lon, TRUE, similarity)
    IN  IF InsertAllowed(rows, {new_attendance})
        THEN [rows |-> rows \cup {new_attendance},
              response |-> Json(200, TRUE, "CHECK_IN", "")]
        ELSE [rows |-> rows,
              response |-> Json(500, FALSE, "", "Internal server error")]

\* "if not attendance:" branch: INSERT and commit; an IntegrityError of the
\* commit is caught by the handler's except clause (rollback, 500)
absen_check_in(rows, id, employee_id, tanggal, now, lat, lon, similarity) ==
    LET new_attendance ==
            AttendanceRow(id, employee_id, tanggal, now, None, "HADIR",
                          lat, lon, TRUE, similarity)
    IN  IF InsertAllowed(rows, {new_attendance})
        THEN [rows |-> rows \cup {new_attendance},
              response |-> Json(200, TRUE, "CHECK_IN", "")]
        ELSE [rows |-> rows,
              response |-> Json(500, FALSE, "", "Internal server error")]

\* the check-out branch, leaving the stored geolocation alone
absen_check_out_keep_location(rows, attendance, now, lat, lon) ==
    [rows |-> UpdateRow(rows, attendance.id, now, attendance.latitude,
                        attendance.longitude),
     response |-> Json(200, TRUE, "CHECK_OUT", "")]

\* the check-out branch stamping check_in as well
absen_check_out_restamp(rows, attendance, now, lat, lon) ==
    [rows |-> {IF a.id = attendance.id
               THEN [a EXCEPT !.check_in = now, !.check_out = now,
                              !.latitude = lat, !.longitude = lon]
               ELSE a : a \in rows},
     response |-> Json(200, TRUE, "CHECK_OUT", "")]

\* "if attendance.check_in and not attendance.check_out:" branch
absen_check_out(rows, attendance, now, lat, lon) ==
    [rows |-> UpdateRow(rows, attendance.id, now, lat, lon),
     response |-> Json(200, TRUE, "CHECK_OUT", "")]

\* the final return of absen
absen_already_completed(rows) ==
    [rows |-> rows,
     response |-> Json(400, FALSE, "", "Attendance already completed")]

\* the check-out test without "and not attendance.check_out"
CheckOutDueIgnoringCheckOut(attendance) == attendance.check_in # None

\* attendance.check_in and not attendance.check_out
CheckOutDue(attendance) ==
    attendance.check_in # None /\ attendance.check_out = None

\* lines 362-400 of absen: the rows after the request and its response
absen_transition(rows, id, attendance, employee_id, tanggal, now, lat, lon, similarity) ==
    IF attendance = NoAttendance
    THEN absen_check_in(rows, id, employee_id, tanggal, now, lat, lon, similarity)
    ELSE IF CheckOutDue(attendance[1])
    THEN absen_check_out(rows, attendance[1], now, lat, lon)
    ELSE absen_already_completed(rows)

\* steps 1-3: an image arrives and process_attendance runs on it
AbsenReceive(w, image) ==
    /\ pc[w] = "idle"
    /\ requests < MaxRequests
    /\ requests' = requests + 1
    /\ LET p == process_attendance(image, known_faces)
       IN  /\ result' = [result EXCEPT ![w] = p.result]
           /\ stages' = [stages EXCEPT ![w] = p.stages]
    /\ pc' = [pc EXCEPT ![w] = "validate"]
    /\ UNCHANGED <<attendances, nextId, leave_requests, known_faces, today,
                   clock, local, response, owner>>
    /\ UNCHANGED cacheVars

\* step 4 and the employee lookup of step 5
AbsenValidate(w) ==
    /\ pc[w] = "validate"
    /\ LET rejection == absen_validation(result[w])
       IN  IF rejection # NoResponse
           THEN /\ response' = rejection
                /\ pc' = [pc EXCEPT ![w] = "idle"]
                /\ result' = [result EXCEPT ![w] = NoResult]
                /\ stages' = [stages EXCEPT ![w] = <<>>]
                /\ local' = local
           ELSE /\ response' = response
                /\ pc' = [pc EXCEPT ![w] = "query"]
                /\ local' = [local EXCEPT
                                ![w].employee_id = result[w].employee_id]
                /\ UNCHANGED <<result, stages>>
    /\ UNCHANGED <<attendances, nextId, leave_requests, known_faces, today,
                   clock, requests, owner>>
    /\ UNCHANGED cacheVars

\* today, now and the query for today's record
AbsenQuery(w) ==
    /\ pc[w] = "query"
    /\ LET found == FilterBy(attendances, local[w].employee_id, today)
       IN  \E attendance \in
               IF found = {} THEN {NoAttendance} ELSE {<<a>> : a \in found} :
               local' = [local EXCEPT ![w] =
                            [employee_id |-> local[w].employee_id,
                             today |-> today, now |-> clock,
                             attendance |-> attendance]]
    /\ pc' = [pc EXCEPT ![w] = "decide"]
    /\ UNCHANGED <<attendances, nextId, leave_requests, known_faces, today,
                   clock, requests, result, stages, response, owner>>
    /\ UNCHANGED cacheVars

\* the form's coordinates, the branch on the record read, its commit and
\* the response
AbsenCommit(w, latitude, longitude) ==
    /\ pc[w] = "decide"
    /\ LET t == absen_transition(attendances, nextId, local[w].attendance,
                    local[w].employee_id, local[w].today, local[w].now,
                    ParseCoord(latitude), ParseCoord(longitude),
                    result[w].similarity)
       IN  /\ attendances' = t.rows
           /\ nextId' = IF t.response.action = "CHECK_IN"
                        THEN nextId + 1 ELSE nextId
           /\ response' = t.response
    /\ pc' = [pc EXCEPT ![w] = "idle"]
    /\ result' = [result EXCEPT ![w] = NoResult]
    /\ stages' = [stages EXCEPT ![w] = <<>>]
    /\ local' = [local EXCEPT ![w] = NoLocal]
    /\ UNCHANGED <<leave_requests, known_faces, today, clock, requests, owner>>
    /\ UNCHANGED cacheVars

-----------------------------------------------------------------------------
(* app.py: submit_leave and update_leave_status *)

LeaveRow(id, employee_id, tanggal_mulai, tanggal_selesai, status) ==
    [id |-> id, employee_id |-> employee_id, tanggal_mulai |-> tanggal_mulai,
     tanggal_selesai |-> tanggal_selesai, status |-> status]

OwnerIdle == [pc |-> "idle", leave |-> None, current_date |-> None,
              pending |-> {}]

\* submit_leave: a PENDING request of an active employee, start <= end
SubmitLeave(employee_id, tanggal_mulai, tanggal_selesai) ==
    /\ requests < MaxRequests
    /\ requests' = requests + 1
    /\ Cardinality(leave_requests) < MaxLeaves
    /\ employee_id \in Employees
    /\ ~(tanggal_mulai > tanggal_selesai)
    /\ leave_requests' = leave_requests \cup
           {LeaveRow(Cardinality(leave_requests) + 1, employee_id,
                     tanggal_mulai, tanggal_selesai, "PENDING")}
    /\ UNCHANGED <<attendances, nextId, known_faces, today, clock,
                   pc, result, stages, local, response, owner>>
    /\ UNCHANGED cacheVars

\* update_leave_status up to its first commit: the status is stored; an
\* approval goes on to the loop over the days of the leave
LeaveSetStatus(leave, status) ==
    /\ owner.pc = "idle"
    /\ requests < MaxRequests
    /\ requests' = requests + 1
    /\ leave \in leave_requests
    /\ status \in {"DISETUJUI", "DITOLAK"}
    /\ leave_requests' = (leave_requests \ {leave})
                             \cup {[leave EXCEPT !.status = status]}
    /\ owner' = IF status = "DISETUJUI"
                THEN [pc |-> "loop", leave |-> leave.id,
                      current_date |-> leave.tanggal_mulai, pending |-> {}]
                ELSE OwnerIdle
    /\ UNCHANGED <<attendances, nextId, known_faces, today, clock,
                   pc, result, stages, local, response>>
    /\ UNCHANGED cacheVars

OwnerLeave == CHOOSE l \in leave_requests : l.id = owner.leave

\* one iteration of "while current_date <= leave.tanggal_selesai": a day
\* without a record gets an IZIN record added to the session
LeaveLoop ==
    /\ owner.pc = "loop"
    /\ owner.current_date <= OwnerLeave.tanggal_selesai
    /\ owner' = [owner EXCEPT
           !.pending =
               IF FilterBy(attendances, OwnerLeave.employee_id,
                           owner.current_date) = {}
               THEN @ \cup {owner.current_date} ELSE @,
           !.current_date = @ + 1]
    /\ UNCHANGED <<attendances, nextId, leave_requests, known_faces, today,
                   clock, requests, pc, result, stages, local, response>>
    /\ UNCHANGED cacheVars

\* the IZIN records of the session, numbered in the order they were added
PendingRows ==
    {AttendanceRow(nextId + Cardinality({e \in owner.pending : e < d}),
                   OwnerLeave.employee_id, d, None, None, "IZIN",
                   None, None, FALSE, None) : d \in owner.pending}

\* the commit after the loop; an IntegrityError rolls the session back
LeaveCommit ==
    /\ owner.pc = "loop"
    /\ owner.current_date > OwnerLeave.tanggal_selesai
    /\ IF InsertAllowed(attendances, PendingRows)
       THEN /\ attendances' = attendances \cup PendingRows
            /\ nextId' = nextId + Cardinality(PendingRows)
       ELSE UNCHANGED <<attendances, nextId>>
    /\ owner' = OwnerIdle
    /\ UNCHANGED <<leave_requests, known_faces, today, clock, requests, pc,
                   result, stages, local, response>>
    /\ UNCHANGED cacheVars

-----------------------------------------------------------------------------
(* face_cache.py: FaceCache, and the engine's index built from it *)

\* number of components of an encoding; the model's vectors have 2
\* components where the code's have 128
EncodingDim == 2
\* length of a unit vector in the model's integer scale
UnitNorm == 5
\* FaceCache.max_size
max_size == 2
\* identities enrolled through the cache
CacheIds == {1, 2, 3}
\* encodings handed to the cache: unit, of length 2 * UnitNorm, empty, and
\* of one component only
Encodings == {<<3, 4>>, <<6, 8>>, <<>>, <<5>>}

RECURSIVE SumSquares(_)
SumSquares(v) ==
    IF v = <<>> THEN 0 ELSE Head(v) * Head(v) + SumSquares(Tail(v))

\* np.linalg.norm
Norm(v) == CHOOSE n \in 0 .. 4 * UnitNorm : n * n = SumSquares(v)

\* "norm = np.linalg.norm(vec); if norm > 0: vec = vec / norm"
Normalize(v) ==
    LET norm == Norm(v)
    IN  IF norm > 0
        THEN [i \in 1 .. Len(v) |-> (v[i] * UnitNorm) \div norm]
        ELSE v

\* MD5 of the encoding's bytes: a number that differs for any two of the
\* model's vectors
RECURSIVE _calculate_hash(_)
_calculate_hash(encoding) ==
    IF encoding = <<>> THEN 1
    ELSE _calculate_hash(SubSeq(encoding, 1, Len(encoding) - 1)) * 32
             + encoding[Len(encoding)] + 16

FaceCacheEntry(employee_id, encoding, created_at, last_accessed, hash_md5) ==
    [employee_id |-> employee_id, encoding |-> encoding,
     created_at |-> created_at, last_accessed |-> last_accessed,
     hash_md5 |-> hash_md5]

\* self.cache is a dict; a dict keeps its keys in the order of their first
\* insertion and an assignment to a present key keeps the key's place
Keys(c) == {c[i].employee_id : i \in 1 .. Len(c)}
At(c, employee_id) ==
    c[CHOOSE i \in 1 .. Len(c) : c[i].employee_id = employee_id]
Put(c, entry) ==
    IF entry.employee_id \in Keys(c)
    THEN [i \in 1 .. Len(c) |->
             IF c[i].employee_id = entry.employee_id THEN entry ELSE c[i]]
    ELSE Append(c, entry)
Del(c, employee_id) ==
    LET Other(e) == e.employee_id # employee_id IN SelectSeq(c, Other)

RECURSIVE PutAll(_, _)
PutAll(c, entries) ==
    IF entries = <<>> THEN c
    ELSE PutAll(Put(c, Head(entries)), Tail(entries))

\* the cache file: missing, the legacy shape (encodings only), or the
\* current shape (entries and metadata)
NoFile == [format |-> "missing"]
LegacyFile(data) == [format |-> "legacy", data |-> data]
\* a file whose bytes pickle.load cannot read
DamagedFile == [format |-> "damaged"]

\* _save_cache: asdict() of every entry plus the metadata block
_save_cache(c) ==
    [format |-> "current", cache |-> c,
     metadata |-> [version |-> "1.0", total_entries |-> Len(c)]]

\* sorted(self.cache.items(), key=last_accessed): a stable sort
RECURSIVE InsertByLastAccessed(_, _)
InsertByLastAccessed(x, s) ==
    IF s = <<>> THEN <<x>>
    ELSE IF Head(s).last_accessed < x.last_accessed
    THEN <<Head(s)>> \o InsertByLastAccessed(x, Tail(s))
    ELSE <<x>> \o s

RECURSIVE sorted_entries(_)
sorted_entries(c) ==
    IF c = <<>> THEN <<>>
    ELSE InsertByLastAccessed(Head(c), sorted_entries(Tail(c)))

\* the identities _cleanup_old_entries deletes
entries_to_remove(c) ==
    IF Len(c) <= max_size THEN {}
    ELSE {sorted_entries(c)[i].employee_id : i \in 1 .. Len(c) - max_size}

_cleanup_old_entries(c, f) ==
    IF Len(c) <= max_size THEN [cache |-> c, file |-> f]
    ELSE LET Kept(e) == e.employee_id \notin entries_to_remove(c)
             kept == SelectSeq(c, Kept)
         IN  [cache |-> kept, file |-> _save_cache(kept)]

\* the entries _load_cache reads from the file, in file order
FileEntries(f, now) ==
    IF f.format = "current" THEN f.cache
    ELSE IF f.format = "legacy"
    THEN [i \in 1 .. Len(f.data) |->
             FaceCacheEntry(f.data[i].employee_id, f.data[i].encoding,
                            now, now, _calculate_hash(f.data[i].encoding))]
    ELSE <<>>

\* self.cache after the loop of _load_cache, before the cleanup
Loaded(c, f, now) == PutAll(c, FileEntries(f, now))

\* _load_cache: a file that cannot be read ends in the except branch,
\* which empties self.cache
_load_cache(c, f, now) ==
    IF f = NoFile THEN [cache |-> c, file |-> f]
    ELSE IF f = DamagedFile THEN [cache |-> <<>>, file |-> f]
    ELSE _cleanup_old_entries(Loaded(c, f, now), f)

\* _save_cache when the write raises: open() failed and the file is as it
\* was, or pickle.dump failed after open() had truncated the file; the
\* exception is printed and not passed on
_save_cache_failed(f, truncated) == IF truncated THEN DamagedFile ELSE f

add(c, f, employee_id, encoding, now) ==
    IF encoding = <<>> \/ Len(encoding) # EncodingDim
    THEN [ok |-> FALSE, cache |-> c, file |-> f]
    ELSE LET entry == FaceCacheEntry(employee_id, encoding, now, now,
                                     _calculate_hash(encoding))
         IN  [ok |-> TRUE, cache |-> Put(c, entry),
              file |-> _save_cache(Put(c, entry))]

\* remove that leaves the file as it is
remove_unsaved(c, f, employee_id) ==
    IF employee_id \in Keys(c)
    THEN [ok |-> TRUE, cache |-> Del(c, employee_id), file |-> f]
    ELSE [ok |-> FALSE, cache |-> c, file |-> f]

remove(c, f, employee_id) ==
    IF employee_id \in Keys(c)
    THEN [ok |-> TRUE, cache |-> Del(c, employee_id),
          file |-> _save_cache(Del(c, employee_id))]
    ELSE [ok |-> FALSE, cache |-> c, file |-> f]

\* get that does not compare the hashes
get_unverified(c, f, employee_id, now) ==
    IF employee_id \in Keys(c)
    THEN LET entry == [At(c, employee_id) EXCEPT !.last_accessed = now]
         IN  [value |-> entry.encoding, log |-> "",
              cache |-> Put(c, entry), file |-> f]
    ELSE [value |-> NoEmbedding, log |-> "", cache |-> c, file |-> f]

get(c, f, employee_id, now) ==
    IF employee_id \in Keys(c)
    THEN LET entry == [At(c, employee_id) EXCEPT !.last_accessed = now]
         IN  IF _calculate_hash(entry.encoding) # entry.hash_md5
             THEN [value |-> NoEmbedding, log |-> "Hash mismatch",
                   cache |-> remove(Put(c, entry), f, employee_id).cache,
                   file |-> remove(Put(c, entry), f, employee_id).file]
             ELSE [value |-> entry.encoding, log |-> "",
                   cache |-> Put(c, entry), file |-> f]
    ELSE [value |-> NoEmbedding, log |-> "", cache |-> c, file |-> f]

get_all(c) ==
    [i \in 1 .. Len(c) |-> [id |-> c[i].employee_id, vec |-> c[i].encoding]]

clear(c, f) == [cache |-> <<>>, file |-> NoFile]

\* validate_all: identity -> whether the recomputed hash is the stored one
validate_all(c) ==
    [i \in 1 .. Len(c) |->
        [id |-> c[i].employee_id,
         valid |-> _calculate_hash(c[i].encoding) = c[i].hash_md5]]

\* the identities of the entries of c, in dict order
RECURSIVE IdsOf(_)
IdsOf(c) == IF c = <<>> THEN <<>> ELSE <<Head(c).employee_id>> \o IdsOf(Tail(c))

\* cleanup_invalid without the write of the file
cleanup_invalid_unsaved(c, f) ==
    LET Valid(e) == _calculate_hash(e.encoding) = e.hash_md5
        Invalid(e) == ~Valid(e)
    IN  [cache |-> SelectSeq(c, Valid), file |-> f,
         removed |-> IdsOf(SelectSeq(c, Invalid))]

cleanup_invalid(c, f) ==
    LET Valid(e) == _calculate_hash(e.encoding) = e.hash_md5
        Invalid(e) == ~Valid(e)
        kept == SelectSeq(c, Valid)
        removed == IdsOf(SelectSeq(c, Invalid))
    IN  IF removed # <<>>
        THEN [cache |-> kept, file |-> _save_cache(kept), removed |-> removed]
        ELSE [cache |-> c, file |-> f, removed |-> removed]

\* backup copies the cache file, restore copies it back and loads it into
\* the entries already in memory
restore(c, f, b, now) ==
    IF b = NoFile THEN [ok |-> FALSE, cache |-> c, file |-> f]
    ELSE [ok |-> TRUE, cache |-> _load_cache(c, b, now).cache,
          file |-> _load_cache(c, b, now).file]

\* FaceEngine.__init__: known_faces from get_all, every vector normalized
FaceEngineInit(c) ==
    [i \in 1 .. Len(c) |->
        [id |-> get_all(c)[i].id, vec |-> Normalize(get_all(c)[i].vec)]]

\* self.known_faces[employee_id] = encoding_array
IndexPut(faces, employee_id, vec) ==
    IF \E i \in 1 .. Len(faces) : faces[i].id = employee_id
    THEN [i \in 1 .. Len(faces) |->
             IF faces[i].id = employee_id
             THEN [id |-> employee_id, vec |-> vec] ELSE faces[i]]
    ELSE Append(faces, [id |-> employee_id, vec |-> vec])

-----------------------------------------------------------------------------
(* calls on the cache and the engine, one at a time *)

MaxCalls == 3

\* what the last call was and returned: its success flag, the vector it
\* handed out (get), the mapping it handed out (get_all), the line it
\* printed when it found a hash mismatch, the verdicts of validate_all and
\* the identities cleanup_invalid removed
Returned(op, ok, value) ==
    [op |-> op, ok |-> ok, value |-> value, all |-> <<>>, log |-> "",
     valid |-> <<>>, removed |-> <<>>]

NoHistory == [added |-> NoEmbedding, accessed |-> None]
\* the history of the identities that are still entries of c
Forget(h, c) == [i \in CacheIds |-> IF i \in Keys(c) THEN h[i] ELSE NoHistory]

\* the value the bytes of a stored vector are changed to
Corrupted(encoding) == <<encoding[2], encoding[1]>>

\* face_cache.add(employee_id, encoding)
CacheAdd(employee_id, encoding) ==
    /\ clock <= MaxCalls
    /\ LET r == add(cache, file, employee_id, encoding, clock)
       IN  /\ cache' = r.cache
           /\ file' = r.file
           /\ outcome' = Returned("add", r.ok, NoEmbedding)
           /\ history' = IF r.ok
                         THEN [history EXCEPT ![employee_id] =
                                  [added |-> encoding, accessed |-> clock]]
                         ELSE history
    /\ clock' = clock + 1
    /\ UNCHANGED <<known_faces, backup, lock, thread, invoked>>
    /\ UNCHANGED attVars

\* face_cache.add(employee_id, encoding) of a valid encoding when the write
\* of the file raises inside _save_cache
CacheAddSaveFails(employee_id, encoding, truncated) ==
    /\ clock <= MaxCalls
    /\ LET r == add(cache, file, employee_id, encoding, clock)
       IN  /\ r.ok
           /\ cache' = r.cache
           /\ file' = _save_cache_failed(file, truncated)
           /\ outcome' = Returned("add", r.ok, NoEmbedding)
           /\ history' = [history EXCEPT ![employee_id] =
                             [added |-> encoding, accessed |-> clock]]
    /\ clock' = clock + 1
    /\ UNCHANGED <<known_faces, backup, lock, thread, invoked>>
    /\ UNCHANGED attVars

\* face_engine.add_face_encoding(employee_id, encoding); the value add
\* returns is not looked at
add_face_encoding(employee_id, encoding) ==
    /\ clock <= MaxCalls
    /\ LET encoding_array == Normalize(encoding)
           r == add(cache, file, employee_id, encoding_array, clock)
       IN  /\ cache' = r.cache
           /\ file' = r.file
           /\ known_faces' = IndexPut(known_faces, employee_id,
                                      encoding_array)
           /\ outcome' = Returned("add_face_encoding", r.ok, NoEmbedding)
           /\ history' = IF r.ok
                         THEN [history EXCEPT ![employee_id] =
                                  [added |-> encoding, accessed |-> clock]]
                         ELSE history
    /\ clock' = clock + 1
    /\ UNCHANGED <<backup, lock, thread, invoked>>
    /\ UNCHANGED attVars

\* face_cache.get(employee_id)
CacheGet(employee_id) ==
    /\ clock <= MaxCalls
    /\ LET r == get(cache, file, employee_id, clock)
       IN  /\ cache' = r.cache
           /\ file' = r.file
           /\ outcome' = [Returned("get", r.value # NoEmbedding, r.value)
                              EXCEPT !.log = r.log]
           /\ history' = IF r.value # NoEmbedding
                         THEN [history EXCEPT ![employee_id].accessed = clock]
                         ELSE Forget(history, r.cache)
    /\ clock' = clock + 1
    /\ UNCHANGED <<known_faces, backup, lock, thread, invoked>>
    /\ UNCHANGED attVars

\* face_cache.remove(employee_id)
CacheRemove(employee_id) ==
    /\ clock <= MaxCalls
    /\ LET r == remove(cache, file, employee_id)
       IN  /\ cache' = r.cache
           /\ file' = r.file
           /\ outcome' = Returned("remove", r.ok, NoEmbedding)
           /\ history' = Forget(history, r.cache)
    /\ clock' = clock + 1
    /\ UNCHANGED <<known_faces, backup, lock, thread, invoked>>
    /\ UNCHANGED attVars

\* face_cache.get_all()
CacheGetAll ==
    /\ clock <= MaxCalls
    /\ outcome' = [Returned("get_all", TRUE, NoEmbedding)
                       EXCEPT !.all = get_all(cache)]
    /\ clock' = clock + 1
    /\ UNCHANGED <<known_faces, cache, file, backup, history, lock, thread,
                   invoked>>
    /\ UNCHANGED attVars

\* face_cache.clear()
CacheClear ==
    /\ clock <= MaxCalls
    /\ cache' = clear(cache, file).cache
    /\ file' = clear(cache, file).file
    /\ outcome' = Returned("clear", TRUE, NoEmbedding)
    /\ history' = Forget(history, <<>>)
    /\ clock' = clock + 1
    /\ UNCHANGED <<known_faces, backup, lock, thread, invoked>>
    /\ UNCHANGED attVars

\* face_cache.cleanup_invalid()
CacheCleanupInvalid ==
    /\ clock <= MaxCalls
    /\ LET r == cleanup_invalid(cache, file)
       IN  /\ cache' = r.cache
           /\ file' = r.file
           /\ outcome' = [Returned("cleanup_invalid", TRUE, NoEmbedding)
                              EXCEPT !.removed = r.removed]
           /\ history' = Forget(history, r.cache)
    /\ clock' = clock + 1
    /\ UNCHANGED <<known_faces, backup, lock, thread, invoked>>
    /\ UNCHANGED attVars

\* face_cache.validate_all()
CacheValidateAll ==
    /\ clock <= MaxCalls
    /\ outcome' = [Returned("validate_all", TRUE, NoEmbedding)
                       EXCEPT !.valid = validate_all(cache)]
    /\ clock' = clock + 1
    /\ UNCHANGED <<known_faces, cache, file, backup, history, lock, thread,
                   invoked>>
    /\ UNCHANGED attVars

\* face_cache.backup()
CacheBackup ==
    /\ clock <= MaxCalls
    /\ backup' = IF file # NoFile THEN file ELSE backup
    /\ outcome' = Returned("backup", file # NoFile, NoEmbedding)
    /\ clock' = clock + 1
    /\ UNCHANGED <<known_faces, cache, file, history, lock, thread, invoked>>
    /\ UNCHANGED attVars

\* face_cache.restore(backup_path) with b the file at backup_path; the
\* vectors last added are no longer the ones stored
RestoreFrom(b) ==
    /\ clock <= MaxCalls
    /\ LET r == restore(cache, file, b, clock)
       IN  /\ cache' = r.cache
           /\ file' = r.file
           /\ outcome' = Returned("restore", r.ok, NoEmbedding)
           /\ history' = IF r.ok
                         THEN [i \in CacheIds |->
                                  [Forget(history, r.cache)[i]
                                      EXCEPT !.added = NoEmbedding]]
                         ELSE history
    /\ clock' = clock + 1
    /\ UNCHANGED <<known_faces, backup, lock, thread, invoked>>
    /\ UNCHANGED attVars

\* restore of the file that backup() wrote
CacheRestore == RestoreFrom(backup)

\* restore of a file that cannot be read
CacheRestoreDamaged == RestoreFrom(DamagedFile)

\* the process starts again: face_cache = FaceCache() loads the file and
\* the engine builds known_faces from it
Restart ==
    /\ clock <= MaxCalls
    /\ LET r == _load_cache(<<>>, file, clock)
       IN  /\ cache' = r.cache
           /\ file' = r.file
           /\ known_faces' = FaceEngineInit(r.cache)
           /\ history' = Forget(history, r.cache)
    /\ outcome' = Returned("start", TRUE, NoEmbedding)
    /\ clock' = clock + 1
    /\ UNCHANGED <<backup, lock, thread, invoked>>
    /\ UNCHANGED attVars

\* the bytes of a stored vector change, its hash does not
Corrupt(employee_id) ==
    /\ clock <= MaxCalls
    /\ employee_id \in Keys(cache)
    /\ cache' = Put(cache, [At(cache, employee_id) EXCEPT
                               !.encoding = Corrupted(@)])
    /\ history' = [history EXCEPT ![employee_id].added = NoEmbedding]
    /\ clock' = clock + 1
    /\ UNCHANGED <<known_faces, file, backup, outcome, lock, thread, invoked>>
    /\ UNCHANGED attVars

-----------------------------------------------------------------------------
(* concurrent calls of add and remove, cut at the lock and inside
   _save_cache *)

\* the calls the threads make, each at most once
WriterCalls ==
    {[op |-> "add", employee_id |-> 1, encoding |-> <<3, 4>>],
     [op |-> "add", employee_id |-> 1, encoding |-> <<4, 3>>],
     [op |-> "add", employee_id |-> 2, encoding |-> <<3, 4>>],
     [op |-> "add", employee_id |-> 2, encoding |-> <<5>>],
     [op |-> "remove", employee_id |-> 1, encoding |-> NoEmbedding]}

NoCall == [pc |-> "idle", op |-> "", employee_id |-> None,
           encoding |-> NoEmbedding, cache_data |-> <<>>]
IdleThreads == [t \in Workers |-> NoCall]

\* a lock that never makes a thread wait
LockFreeForAll(l, t) == TRUE

\* "with self.lock:" can be entered when the lock is free; it is an RLock,
\* so the thread that holds it can enter again
LockFree(l, t) == l = None \/ l = t

\* thread t calls add or remove
WriterCall(t, call) ==
    /\ thread[t].pc = "idle"
    /\ call \notin invoked
    /\ Cardinality(invoked) < MaxCalls
    /\ invoked' = invoked \cup {call}
    /\ thread' = [thread EXCEPT ![t] =
                     [pc |-> IF call.op = "add" THEN "validate" ELSE "acquire",
                      op |-> call.op, employee_id |-> call.employee_id,
                      encoding |-> call.encoding, cache_data |-> <<>>]]
    /\ UNCHANGED <<known_faces, clock, cache, file, backup, outcome, history,
                   lock>>
    /\ UNCHANGED attVars

\* add, before the lock: the length test and the new entry
AddValidate(t) ==
    /\ thread[t].pc = "validate"
    /\ IF thread[t].encoding = <<>> \/ Len(thread[t].encoding) # EncodingDim
       THEN /\ thread' = [thread EXCEPT ![t] = NoCall]
            /\ outcome' = Returned("add", FALSE, NoEmbedding)
       ELSE /\ thread' = [thread EXCEPT ![t].pc = "acquire"]
            /\ outcome' = outcome
    /\ UNCHANGED <<known_faces, clock, cache, file, backup, history, lock,
                   invoked>>
    /\ UNCHANGED attVars

\* "with self.lock:"
Acquire(t) ==
    /\ thread[t].pc = "acquire"
    /\ LockFree(lock, t)
    /\ lock' = t
    /\ thread' = [thread EXCEPT ![t].pc = "mutate"]
    /\ UNCHANGED <<known_faces, clock, cache, file, backup, outcome, history,
                   invoked>>
    /\ UNCHANGED attVars

\* add: self.cache[employee_id] = entry
AddInsert(t) ==
    /\ thread[t].pc = "mutate"
    /\ thread[t].op \in {"add", "update"}
    /\ cache' = Put(cache, FaceCacheEntry(thread[t].employee_id,
                               thread[t].encoding, clock, clock,
                               _calculate_hash(thread[t].encoding)))
    /\ thread' = [thread EXCEPT ![t].pc = "save"]
    /\ UNCHANGED <<known_faces, clock, file, backup, outcome, history, lock,
                   invoked>>
    /\ UNCHANGED attVars

\* remove: "if employee_id in self.cache: del self.cache[employee_id]",
\* else the lock is released and False returned
RemoveDelete(t) ==
    /\ thread[t].pc = "mutate"
    /\ thread[t].op = "remove"
    /\ IF thread[t].employee_id \in Keys(cache)
       THEN /\ cache' = Del(cache, thread[t].employee_id)
            /\ thread' = [thread EXCEPT ![t].pc = "save"]
            /\ UNCHANGED <<lock, outcome>>
       ELSE /\ cache' = cache
            /\ thread' = [thread EXCEPT ![t] = NoCall]
            /\ lock' = IF lock = t THEN None ELSE lock
            /\ outcome' = Returned("remove", FALSE, NoEmbedding)
    /\ UNCHANGED <<known_faces, clock, file, backup, history, invoked>>
    /\ UNCHANGED attVars

\* the calls of update
UpdateCalls ==
    {[op |-> "update", employee_id |-> 1, encoding |-> <<4, 3>>],
     [op |-> "update", employee_id |-> 1, encoding |-> <<5>>]}

\* thread t calls update
UpdateCall(t, call) ==
    /\ thread[t].pc = "idle"
    /\ call \notin invoked
    /\ Cardinality(invoked) < MaxCalls
    /\ invoked' = invoked \cup {call}
    /\ thread' = [thread EXCEPT ![t] =
                     [pc |-> "check", op |-> call.op,
                      employee_id |-> call.employee_id,
                      encoding |-> call.encoding, cache_data |-> <<>>]]
    /\ UNCHANGED <<known_faces, clock, cache, file, backup, outcome, history,
                   lock>>
    /\ UNCHANGED attVars

\* update: "if employee_id not in self.cache: return False", read without
\* the lock; otherwise "return self.add(employee_id, encoding)"
UpdateCheck(t) ==
    /\ thread[t].pc = "check"
    /\ IF thread[t].employee_id \notin Keys(cache)
       THEN /\ thread' = [thread EXCEPT ![t] = NoCall]
            /\ outcome' = Returned("update", FALSE, NoEmbedding)
       ELSE /\ thread' = [thread EXCEPT ![t].pc = "validate"]
            /\ outcome' = outcome
    /\ UNCHANGED <<known_faces, clock, cache, file, backup, history, lock,
                   invoked>>
    /\ UNCHANGED attVars

\* _save_cache: cache_data is built from self.cache
SaveCollect(t) ==
    /\ thread[t].pc = "save"
    /\ thread' = [thread EXCEPT ![t].pc = "write", ![t].cache_data = cache]
    /\ UNCHANGED <<known_faces, clock, cache, file, backup, outcome, history,
                   lock, invoked>>
    /\ UNCHANGED attVars

\* _save_cache: pickle.dump; the lock is released and True returned
SaveWrite(t) ==
    /\ thread[t].pc = "write"
    /\ file' = _save_cache(thread[t].cache_data)
    /\ lock' = IF lock = t THEN None ELSE lock
    /\ thread' = [thread EXCEPT ![t] = NoCall]
    /\ outcome' = Returned(thread[t].op, TRUE, NoEmbedding)
    /\ UNCHANGED <<known_faces, clock, cache, backup, history, invoked>>
    /\ UNCHANGED attVars

-----------------------------------------------------------------------------
(* the lock: every "with self.lock:" of a call, the nested ones included *)

\* leaving "with self.lock:" gives the lock up without giving it back
release_never(l, held) == l

\* leaving "with self.lock:": the RLock is free again when its holder
\* leaves the outermost block
release(l, held) == IF held = 1 THEN None ELSE l

\* the calls the threads make, each at most once; load is the constructor's
\* call of _load_cache
LockCalls ==
    {[op |-> "get", employee_id |-> 2, encoding |-> NoEmbedding],
     [op |-> "add", employee_id |-> 1, encoding |-> <<3, 4>>],
     [op |-> "remove", employee_id |-> 3, encoding |-> NoEmbedding],
     [op |-> "restore", employee_id |-> None, encoding |-> NoEmbedding],
     [op |-> "_load_cache", employee_id |-> None, encoding |-> NoEmbedding]}

\* a thread outside every call; stack lists the methods whose
\* "with self.lock:" the thread is in, entering the method it calls next
NoLockCall == [pc |-> "idle", op |-> "", employee_id |-> None,
               encoding |-> NoEmbedding, entering |-> "", stack |-> <<>>,
               ok |-> FALSE, value |-> NoEmbedding]

\* the method whose block the thread is in
Top(stack) == stack[Len(stack)]

\* thread t calls a method of the cache; restore returns at once when the
\* backup file does not exist
LockCall(t, call) ==
    /\ thread[t].pc = "idle"
    /\ call \notin invoked
    /\ Cardinality(invoked) < MaxCalls
    /\ call.op = "restore" => backup # NoFile
    /\ invoked' = invoked \cup {call}
    /\ thread' = [thread EXCEPT ![t] =
                     [NoLockCall EXCEPT !.pc = "enter", !.op = call.op,
                                        !.employee_id = call.employee_id,
                                        !.encoding = call.encoding,
                                        !.entering = call.op]]
    /\ UNCHANGED <<known_faces, clock, cache, file, backup, outcome, history,
                   lock>>
    /\ UNCHANGED attVars

\* "with self.lock:" of the method the thread is entering
Enter(t) ==
    /\ thread[t].pc = "enter"
    /\ LockFree(lock, t)
    /\ lock' = t
    /\ thread' = [thread EXCEPT
                     ![t].pc = "body",
                     ![t].stack = Append(@, thread[t].entering)]
    /\ UNCHANGED <<known_faces, clock, cache, file, backup, outcome, history,
                   invoked>>
    /\ UNCHANGED attVars

\* add inside its block: the insert, then self._save_cache()
AddBody(t) ==
    /\ thread[t].pc = "body"
    /\ Top(thread[t].stack) = "add"
    /\ cache' = Put(cache, FaceCacheEntry(thread[t].employee_id,
                               thread[t].encoding, clock, clock,
                               _calculate_hash(thread[t].encoding)))
    /\ thread' = [thread EXCEPT ![t].pc = "enter",
                                ![t].entering = "_save_cache",
                                ![t].ok = TRUE]
    /\ UNCHANGED <<known_faces, clock, file, backup, outcome, history, lock,
                   invoked>>
    /\ UNCHANGED attVars

\* remove inside its block: the delete and self._save_cache(), or False
RemoveBody(t) ==
    /\ thread[t].pc = "body"
    /\ Top(thread[t].stack) = "remove"
    /\ IF thread[t].employee_id \in Keys(cache)
       THEN /\ cache' = Del(cache, thread[t].employee_id)
            /\ thread' = [thread EXCEPT
                             ![t].pc = "enter",
                             ![t].entering = "_save_cache",
                             ![t].ok = IF thread[t].op = "remove"
                                       THEN TRUE ELSE @]
       ELSE /\ cache' = cache
            /\ thread' = [thread EXCEPT ![t].pc = "exit"]
    /\ UNCHANGED <<known_faces, clock, file, backup, outcome, history, lock,
                   invoked>>
    /\ UNCHANGED attVars

\* get inside its block: last_accessed is set, the hash compared, and a
\* corrupted entry removed through self.remove(employee_id)
GetBody(t) ==
    /\ thread[t].pc = "body"
    /\ Top(thread[t].stack) = "get"
    /\ IF thread[t].employee_id \in Keys(cache)
       THEN LET entry == [At(cache, thread[t].employee_id)
                             EXCEPT !.last_accessed = clock]
            IN  /\ cache' = Put(cache, entry)
                /\ IF _calculate_hash(entry.encoding) # entry.hash_md5
                   THEN thread' = [thread EXCEPT ![t].pc = "enter",
                                                 ![t].entering = "remove"]
                   ELSE thread' = [thread EXCEPT
                                      ![t].pc = "exit", ![t].ok = TRUE,
                                      ![t].value = entry.encoding]
       ELSE /\ cache' = cache
            /\ thread' = [thread EXCEPT ![t].pc = "exit"]
    /\ UNCHANGED <<known_faces, clock, file, backup, outcome, history, lock,
                   invoked>>
    /\ UNCHANGED attVars

\* _save_cache inside its block: the file is written
SaveBody(t) ==
    /\ thread[t].pc = "body"
    /\ Top(thread[t].stack) = "_save_cache"
    /\ file' = _save_cache(cache)
    /\ thread' = [thread EXCEPT ![t].pc = "exit"]
    /\ UNCHANGED <<known_faces, clock, cache, backup, outcome, history, lock,
                   invoked>>
    /\ UNCHANGED attVars

\* restore inside its block: the backup is copied over the cache file,
\* then self._load_cache()
RestoreBody(t) ==
    /\ thread[t].pc = "body"
    /\ Top(thread[t].stack) = "restore"
    /\ file' = backup
    /\ thread' = [thread EXCEPT ![t].pc = "enter",
                                ![t].entering = "_load_cache",
                                ![t].ok = TRUE]
    /\ UNCHANGED <<known_faces, clock, cache, backup, outcome, history, lock,
                   invoked>>
    /\ UNCHANGED attVars

\* _load_cache inside its block: the file's entries are put into
\* self.cache; over max_size, _cleanup_old_entries deletes the oldest (it
\* has no block of its own) and calls self._save_cache()
LoadBody(t) ==
    /\ thread[t].pc = "body"
    /\ Top(thread[t].stack) = "_load_cache"
    /\ LET loaded == IF file = NoFile THEN cache
                     ELSE IF file = DamagedFile THEN <<>>
                     ELSE Loaded(cache, file, clock)
           Kept(e) == e.employee_id \notin entries_to_remove(loaded)
       IN  IF file # NoFile /\ Len(loaded) > max_size
           THEN /\ cache' = SelectSeq(loaded, Kept)
                /\ thread' = [thread EXCEPT ![t].pc = "enter",
                                            ![t].entering = "_save_cache"]
           ELSE /\ cache' = loaded
                /\ thread' = [thread EXCEPT ![t].pc = "exit"]
    /\ UNCHANGED <<known_faces, clock, file, backup, outcome, history, lock,
                   invoked>>
    /\ UNCHANGED attVars

\* the end of a "with self.lock:" block; the method returns, to its caller
\* inside the cache (which then leaves its own block) or to the thread
Exit(t) ==
    /\ thread[t].pc = "exit"
    /\ lock' = release(lock, Len(thread[t].stack))
    /\ IF Len(thread[t].stack) = 1
       THEN /\ thread' = [thread EXCEPT ![t] = NoLockCall]
            /\ outcome' = Returned(thread[t].op, thread[t].ok,
                                   thread[t].value)
       ELSE /\ thread' = [thread EXCEPT
                             ![t].stack = SubSeq(@, 1, Len(@) - 1)]
            /\ outcome' = outcome
    /\ UNCHANGED <<known_faces, clock, cache, file, backup, history,
                   invoked>>
    /\ UNCHANGED attVars

\* a step of the call thread t is in
LockStep(t) ==
    \/ Enter(t)
    \/ AddBody(t)
    \/ RemoveBody(t)
    \/ GetBody(t)
    \/ SaveBody(t)
    \/ RestoreBody(t)
    \/ LoadBody(t)
    \/ Exit(t)

-----------------------------------------------------------------------------
(* time *)

Tick ==
    /\ \E t \in ClockValues : t > clock /\ clock' = t
    /\ UNCHANGED <<attendances, nextId, leave_requests, known_faces, today,
                   requests, pc, result, stages, local, response, owner>>
    /\ UNCHANGED cacheVars

-----------------------------------------------------------------------------
(* the system *)

\* known_faces after FaceEngine.__init__ loaded the cache: employees 1 and 2
\* and an identity 3 that has no row in table employees
InitialKnownFaces ==
    <<[id |-> 1, vec |-> <<5, 0>>], [id |-> 2, vec |-> <<0, 5>>],
      [id |-> 3, vec |-> <<-5, 0>>]>>

Init ==
    /\ attendances = {}
    /\ nextId = 1
    /\ leave_requests = {}
    /\ known_faces = InitialKnownFaces
    /\ today = 1
    /\ clock = FirstClock
    /\ requests = 0
    /\ pc = [w \in Workers |-> "idle"]
    /\ result = [w \in Workers |-> NoResult]
    /\ stages = [w \in Workers |-> <<>>]
    /\ local = [w \in Workers |-> NoLocal]
    /\ response = NoResponse
    /\ owner = OwnerIdle
    /\ cache = <<>>
    /\ file = NoFile
    /\ backup = NoFile
    /\ outcome = Returned("start", TRUE, NoEmbedding)
    /\ history = [i \in CacheIds |-> NoHistory]
    /\ lock = None
    /\ thread = IdleThreads
    /\ invoked = {}

Next ==
    \/ \E w \in Workers, image \in Images : AbsenReceive(w, image)
    \/ \E w \in Workers : AbsenValidate(w)
    \/ \E w \in Workers : AbsenQuery(w)
    \/ \E w \in Workers, geo \in GeoForms : AbsenCommit(w, geo[1], geo[2])
    \/ \E e \in Employees, d1, d2 \in Dates : SubmitLeave(e, d1, d2)
    \/ \E leave \in leave_requests, status \in {"DISETUJUI", "DITOLAK"} :
           LeaveSetStatus(leave, status)
    \/ LeaveLoop
    \/ LeaveCommit
    \/ Tick

Spec == Init /\ [][Next]_vars

-----------------------------------------------------------------------------
(* the cache on its own *)

\* the attendance handlers at rest
AttendanceIdle ==
    /\ attendances = {}
    /\ nextId = 1
    /\ leave_requests = {}
    /\ today = 1
    /\ requests = 0
    /\ pc = [w \in Workers |-> "idle"]
    /\ result = [w \in Workers |-> NoResult]
    /\ stages = [w \in Workers |-> <<>>]
    /\ local = [w \in Workers |-> NoLocal]
    /\ response = NoResponse
    /\ owner = OwnerIdle

\* cache files found at the first start: none, or a legacy file of three
\* encodings
InitialFiles ==
    {NoFile,
     LegacyFile(<<[employee_id |-> 1, encoding |-> <<3, 4>>],
                  [employee_id |-> 2, encoding |-> <<4, 3>>],
                  [employee_id |-> 3, encoding |-> <<5, 0>>]>>)}

\* the state after face_cache = FaceCache() and FaceEngine() at time 0
StartWith(f) ==
    /\ AttendanceIdle
    /\ cache = _load_cache(<<>>, f, 0).cache
    /\ file = _load_cache(<<>>, f, 0).file
    /\ known_faces = FaceEngineInit(cache)
    /\ history = [i \in CacheIds |->
                     IF i \in Keys(cache)
                     THEN [added |-> NoEmbedding,
                           accessed |-> At(cache, i).last_accessed]
                     ELSE NoHistory]
    /\ clock = 1
    /\ backup = NoFile
    /\ outcome = Returned("start", TRUE, NoEmbedding)
    /\ lock = None
    /\ thread = IdleThreads
    /\ invoked = {}

CacheInit == \E f \in InitialFiles : StartWith(f)

CacheNext ==
    \/ \E i \in CacheIds, e \in Encodings : CacheAdd(i, e)
    \/ \E i \in CacheIds, e \in Encodings : add_face_encoding(i, e)
    \/ \E i \in CacheIds : CacheGet(i)
    \/ \E i \in CacheIds : CacheRemove(i)
    \/ CacheGetAll
    \/ CacheClear
    \/ CacheCleanupInvalid
    \/ CacheValidateAll
    \/ CacheBackup
    \/ CacheRestore
    \/ Restart
    \/ \E i \in CacheIds : Corrupt(i)

CacheSpec == CacheInit /\ [][CacheNext]_vars

\* the cache with files that fail: a write that raises, a backup that
\* cannot be read; the first start may also find a legacy file that fits
\* into max_size
LegacyFiles ==
    {LegacyFile(<<[employee_id |-> 1, encoding |-> <<3, 4>>],
                  [employee_id |-> 2, encoding |-> <<4, 3>>]>>)}

PersistenceInit == \E f \in InitialFiles \cup LegacyFiles : StartWith(f)

PersistenceNext ==
    \/ CacheNext
    \/ CacheRestoreDamaged
    \/ \E i \in CacheIds, e \in Encodings, truncated \in BOOLEAN :
           CacheAddSaveFails(i, e, truncated)

PersistenceSpec == PersistenceInit /\ [][PersistenceNext]_vars

\* an empty cache and the threads that write to it
WritersInit ==
    /\ AttendanceIdle
    /\ cache = <<>>
    /\ file = NoFile
    /\ known_faces = <<>>
    /\ history = [i \in CacheIds |-> NoHistory]
    /\ clock = 0
    /\ backup = NoFile
    /\ outcome = Returned("start", TRUE, NoEmbedding)
    /\ lock = None
    /\ thread = IdleThreads
    /\ invoked = {}

WritersNext ==
    \/ \E t \in Workers, call \in WriterCalls : WriterCall(t, call)
    \/ \E t \in Workers : AddValidate(t)
    \/ \E t \in Workers : Acquire(t)
    \/ \E t \in Workers : AddInsert(t)
    \/ \E t \in Workers : RemoveDelete(t)
    \/ \E t \in Workers : SaveCollect(t)
    \/ \E t \in Workers : SaveWrite(t)

WritersSpec == WritersInit /\ [][WritersNext]_vars

\* the writers and calls of update
UpdateNext ==
    \/ WritersNext
    \/ \E t \in Workers, call \in UpdateCalls : UpdateCall(t, call)
    \/ \E t \in Workers : UpdateCheck(t)

UpdateSpec == WritersInit /\ [][UpdateNext]_vars

\* a cache of two entries, the first of them perhaps changed in memory after
\* it was stored, and a backup of three entries
LockInit ==
    /\ AttendanceIdle
    /\ \E tampered \in BOOLEAN :
           cache = <<FaceCacheEntry(2, IF tampered THEN Corrupted(<<3, 4>>)
                                                  ELSE <<3, 4>>,
                                    0, 0, _calculate_hash(<<3, 4>>)),
                     FaceCacheEntry(3, <<5, 0>>, 0, 0,
                                    _calculate_hash(<<5, 0>>))>>
    /\ file = _save_cache(
                  <<FaceCacheEntry(2, <<3, 4>>, 0, 0,
                                   _calculate_hash(<<3, 4>>)),
                    FaceCacheEntry(3, <<5, 0>>, 0, 0,
                                   _calculate_hash(<<5, 0>>))>>)
    /\ backup \in {NoFile, DamagedFile,
                    _save_cache(
                        <<FaceCacheEntry(1, <<4, 3>>, 0, 0,
                                         _calculate_hash(<<4, 3>>)),
                          FaceCacheEntry(2, <<3, 4>>, 0, 0,
                                         _calculate_hash(<<3, 4>>)),
                          FaceCacheEntry(3, <<5, 0>>, 0, 0,
                                         _calculate_hash(<<5, 0>>))>>)}
    /\ known_faces = <<>>
    /\ history = [i \in CacheIds |-> NoHistory]
    /\ clock = 1
    /\ outcome = Returned("start", TRUE, NoEmbedding)
    /\ lock = None
    /\ thread = [t \in Workers |-> NoLockCall]
    /\ invoked = {}

LockNext ==
    \/ \E t \in Workers, call \in LockCalls : LockCall(t, call)
    \/ \E t \in Workers : LockStep(t)

\* every thread that is in a call is scheduled again and again
LockSpec ==
    LockInit /\ [][LockNext]_vars /\ \A t \in Workers : WF_vars(LockStep(t))

-----------------------------------------------------------------------------
(* the matcher loop and get_attendance_status on their own: one call, its
   arguments drawn at the start *)

\* key_indices: the landmarks taken, in the order they are taken (the
\* model's landmark lists are numbered from 1)
key_indices == <<2, 1>>

\* "for idx in key_indices: if idx < len(...): embedding.extend([x, y, z])"
\* from entry k of key_indices on
RECURSIVE Collect(_, _)
Collect(landmark, k) ==
    IF k > Len(key_indices) THEN <<>>
    ELSE IF key_indices[k] <= Len(landmark)
    THEN landmark[key_indices[k]] \o Collect(landmark, k + 1)
    ELSE Collect(landmark, k + 1)

\* _extract_face_embedding without the padding
_extract_face_embedding_unpadded(multi_face_landmarks) ==
    IF multi_face_landmarks = <<>> THEN NoEmbedding
    ELSE LET embedding == Collect(multi_face_landmarks[1], 1)
             embedding_array ==
                 IF Len(embedding) > EncodingDim
                 THEN SubSeq(embedding, 1, EncodingDim)
                 ELSE embedding
         IN  Normalize(embedding_array)

\* _extract_face_embedding on what FaceMesh found: None without a face,
\* otherwise the coordinates of the first face's key landmarks, padded or
\* cut to the encoding length and normalized
_extract_face_embedding(multi_face_landmarks) ==
    IF multi_face_landmarks = <<>> THEN NoEmbedding
    ELSE LET embedding == Collect(multi_face_landmarks[1], 1)
             embedding_array ==
                 IF Len(embedding) < EncodingDim
                 THEN embedding \o
                          [i \in 1 .. EncodingDim - Len(embedding) |-> 0]
                 ELSE IF Len(embedding) > EncodingDim
                 THEN SubSeq(embedding, 1, EncodingDim)
                 ELSE embedding
         IN  Normalize(embedding_array)

\* landmarks (x, y, z) and the landmark lists of a face
Points == {<<3, 4, 0>>, <<4, 3, 5>>, <<0, 0, 1>>, <<6, 8, 0>>}
LandmarkLists ==
    {<<>>} \cup {<<p>> : p \in Points} \cup {<<p, q>> : p, q \in Points}

\* results.multi_face_landmarks: no face, one face, or two faces
FaceMeshResults ==
    {<<>>} \cup {<<l>> : l \in LandmarkLists}
           \cup {<<l, <<<<4, 3, 5>>, <<3, 4, 0>>>>>> : l \in LandmarkLists}

ExtractCalls ==
    {[pc |-> "called", op |-> "_extract_face_embedding",
      multi_face_landmarks |-> r, embedding_array |-> NoEmbedding] :
         r \in FaceMeshResults}

\* values of FaceEngine.recognition_threshold (x25): 0, the configured 0.6,
\* 0.96 and 1.0
Thresholds == {0, FACE_RECOGNITION_THRESHOLD, 24, UnitNorm * UnitNorm}

\* contents of FaceEngine.known_faces
Indexes ==
    {<<>>,
     <<[id |-> 1, vec |-> <<5, 0>>]>>,
     <<[id |-> 2, vec |-> <<3, 4>>]>>,
     <<[id |-> 1, vec |-> <<3, 4>>], [id |-> 2, vec |-> <<4, 3>>]>>,
     <<[id |-> 1, vec |-> <<4, 3>>], [id |-> 2, vec |-> <<3, 4>>]>>,
     <<[id |-> 1, vec |-> <<3, 4>>], [id |-> 2, vec |-> <<3, 4>>]>>,
     <<[id |-> 1, vec |-> <<5, 0>>], [id |-> 2, vec |-> <<0, 5>>],
       [id |-> 3, vec |-> <<-5, 0>>]>>}

\* what _extract_face_embedding hands to the loop
MatchProbes == Probes \cup {<<4, 3>>}

MatchCalls ==
    {[pc |-> "called", op |-> "recognize", face_embedding |-> e,
      recognition_threshold |-> th, best |-> NoMatch] :
         e \in MatchProbes, th \in Thresholds}

\* check-in times around the shift start, and no check-in
CheckInTimes == {None} \cup (7 * 60 + 58 .. 8 * 60 + 12)
StatusCalls ==
    {[pc |-> "called", op |-> "get_attendance_status", check_in_time |-> c,
      shift_start_time |-> s, tolerance_minutes |-> tol, status |-> ""] :
         c \in CheckInTimes, s \in {7 * 60 + 58, 8 * 60}, tol \in {0, 5, 10}}

\* the thread that makes the call
Caller == 1

\* the loop of process_attendance, lines 219-235, run to its end
CallRecognize(t) ==
    /\ thread[t].pc = "called"
    /\ thread[t].op = "recognize"
    /\ thread' = [thread EXCEPT
                     ![t].pc = "returned",
                     ![t].best = Recognize(known_faces, 1,
                                     thread[t].face_embedding, NoMatch,
                                     thread[t].recognition_threshold)]
    /\ UNCHANGED <<known_faces, clock, cache, file, backup, outcome, history,
                   lock, invoked>>
    /\ UNCHANGED attVars

CallExtract(t) ==
    /\ thread[t].pc = "called"
    /\ thread[t].op = "_extract_face_embedding"
    /\ thread' = [thread EXCEPT
                     ![t].pc = "returned",
                     ![t].embedding_array =
                         _extract_face_embedding(thread[t].multi_face_landmarks)]
    /\ UNCHANGED <<known_faces, clock, cache, file, backup, outcome, history,
                   lock, invoked>>
    /\ UNCHANGED attVars

CallGetAttendanceStatus(t) ==
    /\ thread[t].pc = "called"
    /\ thread[t].op = "get_attendance_status"
    /\ thread' = [thread EXCEPT
                     ![t].pc = "returned",
                     ![t].status = get_attendance_status(
                                      thread[t].check_in_time,
                                      thread[t].shift_start_time,
                                      thread[t].tolerance_minutes)]
    /\ UNCHANGED <<known_faces, clock, cache, file, backup, outcome, history,
                   lock, invoked>>
    /\ UNCHANGED attVars

FunctionInit ==
    /\ AttendanceIdle
    /\ cache = <<>>
    /\ file = NoFile
    /\ backup = NoFile
    /\ clock = 0
    /\ outcome = Returned("start", TRUE, NoEmbedding)
    /\ history = [i \in CacheIds |-> NoHistory]
    /\ lock = None
    /\ invoked = {}
    /\ \/ /\ known_faces \in Indexes
          /\ \E call \in MatchCalls :
                 thread = [t \in Workers |->
                              IF t = Caller THEN call ELSE NoCall]
       \/ /\ known_faces = <<>>
          /\ \E call \in StatusCalls :
                 thread = [t \in Workers |->
                              IF t = Caller THEN call ELSE NoCall]
       \/ /\ known_faces = <<>>
          /\ \E call \in ExtractCalls :
                 thread = [t \in Workers |->
                              IF t = Caller THEN call ELSE NoCall]

FunctionNext ==
    \/ \E t \in Workers : CallRecognize(t)
    \/ \E t \in Workers : CallGetAttendanceStatus(t)
    \/ \E t \in Workers : CallExtract(t)

FunctionSpec == FunctionInit /\ [][FunctionNext]_vars

-----------------------------------------------------------------------------
(* a request thread inside process_attendance while identities are
   enrolled: the loop over known_faces is cut at each step of its
   iterator, add_face_encoding runs between two steps *)

\* encodings handed to add_face_encoding: one of valid and one of invalid
\* length
EnrollEncodings == {<<3, 4>>, <<5>>}

\* what the except branch of process_attendance returns
ErrorResult == PipelineResult(None, 0, FALSE)

\* the frame of a thread inside process_attendance: the image, the
\* iterator over known_faces (pos entries consumed, used the size of the
\* dict when the iterator was made), best_match_id and best_similarity,
\* the returned dict and what absen answers to it in its step 4; index and
\* started are known_faces and the time when the loop began, after and
\* finished those when the call returned
ScanFrame(image, faces, now) ==
    [pc |-> "scan", op |-> "process_attendance", image |-> image,
     pos |-> 0, used |-> Len(faces), best |-> NoMatch,
     result |-> NoResult, response |-> NoResponse,
     index |-> faces, started |-> now, after |-> <<>>, finished |-> None]

ReturnFrame(frame, res, faces, now) ==
    [frame EXCEPT !.pc = "returned", !.result = res,
                  !.response = absen_validation(res),
                  !.after = faces, !.finished = now]

\* the loop reading each vector through face_cache.get
items_through_cache(faces, i, c, f, now) ==
    [entry |-> faces[i],
     cache |-> get(c, f, faces[i].id, now).cache,
     file |-> get(c, f, faces[i].id, now).file]

\* entry i of self.known_faces.items(), and the cache and its file after
\* the read: the loop reads the engine's dict only
items(faces, i, c, f, now) == [entry |-> faces[i], cache |-> c, file |-> f]

\* process_attendance up to the loop: detection, liveness and extraction
\* return at once without reading known_faces, otherwise the iterator over
\* known_faces is made
ProcessAttendance(t, image) ==
    /\ t = Caller
    /\ thread[t].pc = "idle"
    /\ LET p == process_attendance(image, <<>>)
           frame == ScanFrame(image, known_faces, clock)
       IN  thread' = [thread EXCEPT ![t] =
                         IF p.stages[Len(p.stages)] # "scan"
                         THEN ReturnFrame(frame, p.result, known_faces, clock)
                         ELSE frame]
    /\ UNCHANGED <<known_faces, clock, cache, file, backup, outcome, history,
                   lock, invoked>>
    /\ UNCHANGED attVars

\* one step of the iterator and the loop body.  The iterator raises
\* RuntimeError when the dict has changed its size since the iterator was
\* made, np.dot raises ValueError when the two vectors differ in length;
\* both end in the except branch
ScanNext(t) ==
    /\ thread[t].pc = "scan"
    /\ LET frame == thread[t]
           it == items(known_faces, frame.pos + 1, cache, file, clock)
       IN  IF Len(known_faces) # frame.used
           THEN /\ thread' = [thread EXCEPT ![t] =
                       ReturnFrame(frame, ErrorResult, known_faces, clock)]
                /\ UNCHANGED <<cache, file>>
           ELSE IF frame.pos = Len(known_faces)
           THEN /\ thread' = [thread EXCEPT ![t] =
                       ReturnFrame(frame,
                           PipelineResult(frame.best.id,
                                          frame.best.similarity, TRUE),
                           known_faces, clock)]
                /\ UNCHANGED <<cache, file>>
           ELSE /\ cache' = it.cache
                /\ file' = it.file
                /\ thread' = [thread EXCEPT ![t] =
                       IF Len(it.entry.vec) # Len(frame.image.emb)
                       THEN ReturnFrame(frame, ErrorResult, known_faces, clock)
                       ELSE [frame EXCEPT
                                !.pos = frame.pos + 1,
                                !.best = ScanStep(frame.best, it.entry,
                                             frame.image.emb,
                                             FACE_RECOGNITION_THRESHOLD)]]
    /\ UNCHANGED <<known_faces, clock, backup, outcome, history, lock,
                   invoked>>
    /\ UNCHANGED attVars

EngineNext ==
    \/ \E t \in Workers, image \in Images : ProcessAttendance(t, image)
    \/ \E t \in Workers : ScanNext(t)
    \/ \E i \in CacheIds, e \in EnrollEncodings : add_face_encoding(i, e)

EngineSpec == CacheInit /\ [][EngineNext]_vars


-----------------------------------------------------------------------------
(* Properties *)

\* state of the day's record of an employee in a table
RecordState(rows, employee_id, tanggal) ==
    LET r == FilterBy(rows, employee_id, tanggal)
    IN  IF \E a \in r : a.check_in # None /\ a.check_out # None
        THEN "CHECKED_OUT"
        ELSE IF \E a \in r : a.check_in # None
        THEN "CHECKED_IN"
        ELSE "ABSENT"

LegalMove(s, t) ==
    \/ s = t
    \/ s = "ABSENT" /\ t = "CHECKED_IN"
    \/ s = "CHECKED_IN" /\ t = "CHECKED_OUT"

\* worker w completes the branch-and-commit step of absen
Commits(w) == pc[w] = "decide" /\ pc'[w] = "idle"

\* the record worker w read from the table
Seen(w) == local[w].attendance[1]
SeenNone(w) == local[w].attendance = NoAttendance
SeenCheckedIn(w) ==
    ~SeenNone(w) /\ Seen(w).check_in # None /\ Seen(w).check_out = None
SeenCheckedOut(w) ==
    ~SeenNone(w) /\ Seen(w).check_in # None /\ Seen(w).check_out # None

AlreadyCompleted == Json(400, FALSE, "", "Attendance already completed")

\* C1: in every step, the state of every (employee, date) either stays or
\* moves ABSENT -> CHECKED_IN or CHECKED_IN -> CHECKED_OUT; nothing is
\* skipped and nothing goes back.
C1_StateMachineOrder ==
    [][\A e \in Employees, d \in Dates :
           LegalMove(RecordState(attendances, e, d),
                     RecordState(attendances', e, d))]_vars

\* C1 witness: a record went through both transitions
C1_Witness ==
    \E a \in attendances : a.check_in # None /\ a.check_out # None

\* C2: at most one attendance row per (employee_id, tanggal), whatever the
\* interleaving of attendance requests and leave approvals.
C2_OneRowPerEmployeeDay ==
    \A a, b \in attendances :
        (a.employee_id = b.employee_id /\ a.tanggal = b.tanggal) => a = b

\* C2 witness: a second INSERT for the same (employee, date) was attempted
\* and refused
C2_Witness ==
    /\ response.code = 500
    /\ attendances # {}

\* C3: the status of a record created by a check-in is HADIR when the
\* check-in minute is <= shift start + tolerance and TERLAMBAT otherwise.
C3_StatusFollowsTolerance ==
    \A a \in attendances :
        a.check_in # None =>
            a.status = get_attendance_status(a.check_in,
                ShiftSetting[EmployeeShift[a.employee_id]].jam_masuk,
                ShiftSetting[EmployeeShift[a.employee_id]].toleransi_menit)

\* C4: a check-in request that read "no record" and finds, when it commits,
\* that a racing check-in created the record, ends in the check-out branch
\* or the AlreadyCompleted branch, never in an internal server error.
C4_RaceLoserReevaluated ==
    [][\A w \in Workers :
           (/\ Commits(w)
            /\ SeenNone(w)
            /\ \E a \in FilterBy(attendances, local[w].employee_id,
                                 local[w].today) : a.check_in # None)
           => (/\ response'.code # 500
               /\ \/ response'.action = "CHECK_OUT"
                  \/ response' = AlreadyCompleted)]_vars

\* C5: a request that finds the day's record with check_in and check_out
\* both set is answered AlreadyCompleted and changes no field of any record.
C5_CheckedOutIsFinal ==
    [][\A w \in Workers :
           (Commits(w) /\ SeenCheckedOut(w))
           => (response' = AlreadyCompleted
               /\ attendances' = attendances)]_vars

\* C5 witness: the last request was answered AlreadyCompleted and every
\* record of the table is CHECKED_OUT, so such a record is what it found
C5_Witness ==
    /\ response = AlreadyCompleted
    /\ \A a \in attendances : a.check_in # None /\ a.check_out # None

\* C6: a request that finds the day's record with check_in set and check_out
\* unset writes check_out = now and the supplied coordinates into it, and
\* the record stays the only row of its (employee, date).
C6_CheckOutWrites ==
    [][\A w \in Workers, geo \in GeoForms :
           (SeenCheckedIn(w) /\ AbsenCommit(w, geo[1], geo[2]))
           => LET r == FilterBy(attendances', local[w].employee_id,
                                local[w].today)
              IN  /\ response'.action = "CHECK_OUT"
                  /\ Cardinality(r) = 1
                  /\ \A a \in r : /\ a.id = Seen(w).id
                                  /\ a.check_out = local[w].now
                                  /\ a.latitude = ParseCoord(geo[1])
                                  /\ a.longitude = ParseCoord(geo[2])]_vars

\* C6 witness: a check-out replaced the coordinates stored at check-in by
\* "no coordinates"
C6_Witness ==
    /\ response.action = "CHECK_OUT"
    /\ \E a \in attendances : a.check_out # None /\ a.latitude = None

\* C7: AlreadyCompleted is answered only to a request that found a record
\* with check_in and check_out both set.
C7_AlreadyCompletedOnlyWhenBothSet ==
    [][\A w \in Workers :
           (Commits(w) /\ response' = AlreadyCompleted)
           => SeenCheckedOut(w)]_vars

\* C8: a request whose pipeline result is not live or carries no identity
\* ends at validation with a REJECTED response that names a reason, and the
\* attendance table is not changed.
C8_RejectedNeverWrites ==
    [][\A w \in Workers :
           (/\ pc[w] = "validate"
            /\ pc'[w] # "validate"
            /\ (~result[w].liveness_ok \/ result[w].employee_id = None))
           => (/\ pc'[w] = "idle"
               /\ attendances' = attendances
               /\ response'.success = FALSE
               /\ response'.action = "REJECTED"
               /\ response'.message # "")]_vars

\* C8 witness: a request was rejected as not recognized while a record
\* exists that it could have changed
C8_Witness ==
    /\ response.message = "Face not recognized"
    /\ attendances # {}

\* position of a stage among the stages a run of process_attendance executed
Ran(w, stage) == \E i \in DOMAIN stages[w] : stages[w][i] = stage
Before(w, s1, s2) ==
    \E i, j \in DOMAIN stages[w] :
        i < j /\ stages[w][i] = s1 /\ stages[w][j] = s2

\* C9: whenever process_attendance extracts or scans, the liveness check ran
\* before; when the liveness check failed, neither extraction nor the scan
\* ran and the result has no identity.
C9_LivenessGatesIdentification ==
    \A w \in Workers :
        /\ Ran(w, "extract") => Before(w, "liveness", "extract")
        /\ Ran(w, "scan") => Before(w, "liveness", "scan")
        /\ (Ran(w, "liveness") /\ ~result[w].liveness_ok)
               => (/\ ~Ran(w, "extract")
                   /\ ~Ran(w, "scan")
                   /\ result[w].employee_id = None)

\* C9 witness: a frame with a face failed the liveness check
C9_Witness ==
    \E w \in Workers :
        /\ pc[w] = "validate"
        /\ stages[w] = <<"detect", "liveness">>
        /\ ~result[w].liveness_ok

\* the response and the attendance states that follow when worker w takes
\* its branch with coordinates lat, lon
GeoOutcome(w, lat, lon) ==
    LET t == absen_transition(attendances, nextId, local[w].attendance,
                 local[w].employee_id, local[w].today, local[w].now,
                 lat, lon, result[w].similarity)
    IN  [response |-> t.response,
         state |-> [e \in Employees, d \in Dates |->
                       RecordState(t.rows, e, d)]]

-----------------------------------------------------------------------------
(* Properties of the encoding cache *)

AnyAdd(i, e) ==
    \/ CacheAdd(i, e)
    \/ add_face_encoding(i, e)
    \/ \E truncated \in BOOLEAN : CacheAddSaveFails(i, e, truncated)

\* C11: when an add has completed, the cache holds at most max_size
\* entries (the least recently accessed ones having been evicted).
C11_AddKeepsCapacity ==
    [][\A i \in CacheIds, e \in Encodings :
           AnyAdd(i, e) => Len(cache') <= max_size]_vars

\* place of an identity in the dict order of c
Place(c, i) == CHOOSE n \in 1 .. Len(c) : c[n].employee_id = i

\* eviction took c to d: it removed Len(c) - max_size entries, each stored
\* with a last_accessed no later than any kept one and, where equal,
\* inserted before it
EvictedByStoredTime(c, d) ==
    /\ Len(d) = max_size
    /\ Keys(d) \subseteq Keys(c)
    /\ \A r \in Keys(c) \ Keys(d), k \in Keys(d) :
           \/ At(c, r).last_accessed < At(c, k).last_accessed
           \/ /\ At(c, r).last_accessed = At(c, k).last_accessed
              /\ Place(c, r) < Place(c, k)

\* no removed entry was read or written after a kept one
EvictedByAccess(c, d) ==
    \A r \in Keys(c) \ Keys(d), k \in Keys(d) :
        (history[r].accessed # None /\ history[k].accessed # None)
            => history[r].accessed <= history[k].accessed

Evicted(c, d) ==
    Len(c) > max_size => (EvictedByStoredTime(c, d) /\ EvictedByAccess(c, d))

\* C12: when eviction runs on n > max_size entries it removes n - max_size
\* of them, every removed entry has a last_accessed no later than every
\* kept one with ties broken by insertion order, and an entry that a get
\* read more recently outlives one that was not.
C12_EvictionIsLeastRecentlyAccessed ==
    [][/\ Restart => Evicted(Loaded(<<>>, file, clock), cache')
       /\ (CacheRestore /\ backup # NoFile)
              => Evicted(Loaded(cache, backup, clock), cache')]_vars

\* C13: get(id) after a successful add(id, v), with no corruption, removal,
\* eviction or restore of id in between, returns v normalized.
C13_RoundTrip ==
    [][\A i \in CacheIds :
           (CacheGet(i) /\ history[i].added # NoEmbedding)
               => outcome'.value = Normalize(history[i].added)]_vars

\* C14: every vector stored in the cache and every vector of the in-memory
\* index has unit length.
C14_StoredVectorsAreUnit ==
    /\ \A n \in 1 .. Len(cache) : Norm(cache[n].encoding) = UnitNorm
    /\ \A n \in 1 .. Len(known_faces) : Norm(known_faces[n].vec) = UnitNorm

\* C15: an add of a vector whose length is not EncodingDim fails and leaves
\* the cache entries, the file and the in-memory index as they were.
C15_InvalidLengthChangesNothing ==
    [][\A i \in CacheIds, e \in Encodings :
           (AnyAdd(i, e) /\ Len(e) # EncodingDim)
               => (/\ outcome'.ok = FALSE
                   /\ cache' = cache
                   /\ file' = file
                   /\ known_faces' = known_faces)]_vars

\* the stored vector of identity i no longer has the stored hash
Mismatch(c, i) ==
    i \in Keys(c) /\ _calculate_hash(At(c, i).encoding) # At(c, i).hash_md5

C17_ReadsAreVerified ==
    [][/\ \A i \in CacheIds :
              (CacheGet(i) /\ outcome'.value # NoEmbedding)
                  => ~Mismatch(cache, i)
       /\ CacheGetAll
              => \A n \in 1 .. Len(outcome'.all) :
                     ~Mismatch(cache, outcome'.all[n].id)
       /\ Restart
              => \A n \in 1 .. Len(known_faces') :
                     ~Mismatch(cache', known_faces'[n].id)]_vars

\* C18: remove of a present identity deletes that entry only, writes the
\* file without it and returns True; remove of an absent identity returns
\* False and changes neither the entries nor the file.
C18_Remove ==
    [][\A i \in CacheIds :
           CacheRemove(i)
               => IF i \in Keys(cache)
                  THEN /\ outcome'.ok = TRUE
                       /\ Keys(cache') = Keys(cache) \ {i}
                       /\ \A j \in Keys(cache') : At(cache', j) = At(cache, j)
                       /\ file'.format = "current"
                       /\ FileEntries(file', clock) = cache'
                  ELSE /\ outcome'.ok = FALSE
                       /\ cache' = cache
                       /\ file' = file]_vars

\* C18 witness: a remove has just deleted one of several entries
C18_Witness ==
    /\ outcome.op = "remove"
    /\ outcome.ok = TRUE
    /\ cache # <<>>
    /\ file = _save_cache(cache)

\* the index has the identities of the cache, each with the cached vector
IndexMirrorsCache(faces, c) ==
    /\ {faces[n].id : n \in 1 .. Len(faces)} = Keys(c)
    /\ \A n \in 1 .. Len(faces) : faces[n].vec = At(c, faces[n].id).encoding

\* C19: add, remove, clear, self-heal eviction, cleanup_invalid and restore
\* each leave the index a mirror of the cache.
C19_IndexMirrorsCache ==
    [][(/\ IndexMirrorsCache(known_faces, cache)
        /\ \/ \E i \in CacheIds, e \in Encodings : add_face_encoding(i, e)
           \/ \E i \in CacheIds : CacheRemove(i) \/ CacheGet(i)
           \/ CacheClear
           \/ CacheCleanupInvalid
           \/ CacheRestore)
       => IndexMirrorsCache(known_faces', cache')]_vars

\* what a call does to the entries when it runs alone
Apply(c, call) ==
    IF call.op = "add"
    THEN add(c, NoFile, call.employee_id, call.encoding, clock).cache
    ELSE remove(c, NoFile, call.employee_id).cache

\* the entries after the calls ran one after the other, in any order
RECURSIVE SerialOutcomes(_, _)
SerialOutcomes(calls, c) ==
    IF calls = {} THEN {c}
    ELSE UNION {SerialOutcomes(calls \ {call}, Apply(c, call)) :
                   call \in calls}

\* C20: a thread changes the entries and writes the file only while it
\* holds the lock; when all calls have returned, the entries are those of
\* some sequential order of the calls and the file holds these entries.
C20_WritersSerialize ==
    /\ \A t \in Workers :
           thread[t].pc \in {"mutate", "save", "write"} => lock = t
    /\ (\A t \in Workers : thread[t].pc = "idle")
           => (/\ cache \in SerialOutcomes(invoked, <<>>)
               /\ FileEntries(file, clock) = cache)

\* C20 witness: a thread is about to write the file while another waits
\* for the lock, and a third call has already returned
C20_Witness ==
    /\ \E t, u \in Workers :
           thread[t].pc = "write" /\ thread[u].pc = "acquire"
    /\ Cardinality(invoked) = 3

-----------------------------------------------------------------------------
(* Properties of the cache and its files *)

\* the file at a backup path cannot be loaded, or it holds an entry whose
\* hash does not validate
Unusable(b, now) ==
    \/ b \in {NoFile, DamagedFile}
    \/ \E n \in 1 .. Len(FileEntries(b, now)) :
           Mismatch(FileEntries(b, now), FileEntries(b, now)[n].employee_id)

\* C24: a restore from a backup that cannot be loaded or validated reports
\* failure and leaves the entries in memory and the cache file as they
\* were before the call.
C24_FailedRestoreFallsBack ==
    [][\A b \in {backup, DamagedFile} :
           (RestoreFrom(b) /\ Unusable(b, clock))
               => (/\ outcome'.ok = FALSE
                   /\ cache' = cache
                   /\ file' = file)]_vars

\* C25: an add whose write of the file fails reports the failure and
\* leaves the entries in memory as they were before the call.
C25_FailedWriteRollsBack ==
    [][\A i \in CacheIds, e \in Encodings, truncated \in BOOLEAN :
           CacheAddSaveFails(i, e, truncated)
               => (outcome'.ok = FALSE /\ cache' = cache)]_vars

\* C26: a start that loads a legacy file gives every identity of the file
\* an entry with the file's vector and a hash that validates, and leaves
\* the file as it is; a file the cache writes has the entries and the
\* metadata block; a start that loads a file the cache wrote gives the
\* identities and vectors of that file.
C26_LegacyLoadAndReload ==
    [][/\ (Restart /\ file.format = "legacy")
              => /\ \A n \in 1 .. Len(file.data) :
                        LET d == file.data[n]
                        IN  /\ d.employee_id \in Keys(cache')
                            /\ At(cache', d.employee_id).encoding = d.encoding
                            /\ ~Mismatch(cache', d.employee_id)
                 /\ file' = file
       /\ (file' # file /\ ~CacheRestore /\ file' \notin {NoFile, DamagedFile})
              => /\ file'.format = "current"
                 /\ file'.metadata.total_entries = Len(file'.cache)
       /\ (Restart /\ file.format = "current")
              => get_all(cache') = get_all(file.cache)]_vars

\* C27: validate_all answers, for every entry, whether its recomputed hash
\* is the stored one, and changes nothing; cleanup_invalid removes exactly
\* the entries whose hash does not validate, returns their identities,
\* keeps every other entry as it is, and writes the file when it removed
\* an entry.
C27_ValidateAndCleanup ==
    [][LET invalid == {i \in Keys(cache) : Mismatch(cache, i)}
       IN  /\ CacheValidateAll
                  => /\ Len(outcome'.valid) = Len(cache)
                     /\ \A n \in 1 .. Len(cache) :
                            /\ outcome'.valid[n].id = cache[n].employee_id
                            /\ outcome'.valid[n].valid
                                   <=> cache[n].employee_id \notin invalid
                     /\ cache' = cache
                     /\ file' = file
           /\ CacheCleanupInvalid
                  => /\ Keys(cache') = Keys(cache) \ invalid
                     /\ {outcome'.removed[n] : n \in 1 .. Len(outcome'.removed)}
                            = invalid
                     /\ Len(outcome'.removed) = Cardinality(invalid)
                     /\ \A j \in Keys(cache') : At(cache', j) = At(cache, j)
                     /\ IF invalid # {}
                        THEN /\ file'.format = "current"
                             /\ FileEntries(file', clock) = cache'
                        ELSE file' = file]_vars

\* C27 witness: cleanup_invalid has just removed one entry and kept
\* another, and the file holds the kept one
C27_Witness ==
    /\ outcome.op = "cleanup_invalid"
    /\ Len(outcome.removed) = 1
    /\ Len(cache) = 1
    /\ FileEntries(file, clock) = cache

-----------------------------------------------------------------------------
(* Properties of the matcher loop and of get_attendance_status *)

\* a call of the loop that has returned
Recognized(t) == thread[t].op = "recognize" /\ thread[t].pc = "returned"

\* the similarity of the probe of thread t with entry i of the index
SimilarityOf(t, i) == Dot(thread[t].face_embedding, known_faces[i].vec)

\* C22: the loop returns an identity exactly when some entry's similarity
\* exceeds recognition_threshold; the identity returned is that of an entry
\* whose similarity is the returned one, exceeds the threshold and is not
\* exceeded by any other entry; otherwise it returns None with 0.0.
C22_MaximumAboveThreshold ==
    \A t \in Workers :
        Recognized(t) =>
            LET best == thread[t].best
                th == thread[t].recognition_threshold
                entries == 1 .. Len(known_faces)
            IN  /\ (best.id # None) <=> (\E i \in entries : SimilarityOf(t, i) > th)
                /\ best.id # None =>
                       /\ \E i \in entries :
                              /\ known_faces[i].id = best.id
                              /\ SimilarityOf(t, i) = best.similarity
                       /\ best.similarity > th
                       /\ \A j \in entries : SimilarityOf(t, j) <= best.similarity
                /\ best.id = None => best.similarity = 0

\* C22 witness: the second of two entries above the threshold is returned
C22_Witness ==
    \E t \in Workers :
        /\ Recognized(t)
        /\ Len(known_faces) = 2
        /\ thread[t].best.id = known_faces[2].id
        /\ SimilarityOf(t, 1) > thread[t].recognition_threshold
        /\ SimilarityOf(t, 1) < SimilarityOf(t, 2)

\* identity A enrolled with V as the only entry, probed with V
SoleEnrollmentProbed(t) ==
    /\ Recognized(t)
    /\ Len(known_faces) = 1
    /\ known_faces[1].vec = thread[t].face_embedding

ExactMatch(t) ==
    thread[t].best = [id |-> known_faces[1].id,
                      similarity |-> UnitNorm * UnitNorm]

StatusReturned(t) ==
    thread[t].op = "get_attendance_status" /\ thread[t].pc = "returned"

\* C30: for a check-in time, a shift start and a tolerance, the status is
\* HADIR exactly when the check-in minute is at most start + tolerance and
\* TERLAMBAT otherwise; start 08:00 and tolerance 5 give HADIR at 08:05
\* and TERLAMBAT at 08:06.
C30_LatenessBoundary ==
    \A t \in Workers :
        (StatusReturned(t) /\ thread[t].check_in_time # None) =>
            LET f == thread[t]
            IN  /\ f.status \in {"HADIR", "TERLAMBAT"}
                /\ (f.status = "HADIR") <=>
                       (f.check_in_time <= f.shift_start_time + f.tolerance_minutes)
                /\ (f.shift_start_time = 8 * 60 /\ f.tolerance_minutes = 5) =>
                       /\ f.check_in_time = 8 * 60 + 5 => f.status = "HADIR"
                       /\ f.check_in_time = 8 * 60 + 6 => f.status = "TERLAMBAT"

\* C30 witness: the check-in at 08:05 of a shift starting 08:00 with
\* tolerance 5 was answered
C30_Witness ==
    \E t \in Workers :
        /\ StatusReturned(t)
        /\ thread[t].check_in_time = 8 * 60 + 5
        /\ thread[t].shift_start_time = 8 * 60
        /\ thread[t].tolerance_minutes = 5
        /\ thread[t].status = "HADIR"

-----------------------------------------------------------------------------
(* Properties of process_attendance running beside enrollments *)

\* a call of process_attendance that has returned
Processed(t) ==
    thread[t].op = "process_attendance" /\ thread[t].pc = "returned"

\* the call got as far as the loop over known_faces
Scanned(t) ==
    LET image == thread[t].image
    IN  image.face /\ image.ear > LIVENESS_THRESHOLD /\ image.emb # NoEmbedding

\* what the loop returns for a probe on an index that does not change
LoopResult(faces, face_embedding) ==
    IF \E i \in 1 .. Len(faces) : Len(faces[i].vec) # Len(face_embedding)
    THEN ErrorResult
    ELSE LET best == ScanKnownFaces(faces, 1, face_embedding, NoMatch)
         IN  PipelineResult(best.id, best.similarity, TRUE)

\* C21: when one enrollment ran while the loop of a request was in flight,
\* the request gets the result of the loop on the index as it was when the
\* loop began or as it was when the call returned; in particular a live,
\* enrolled person is not rejected.
C21_ScanSurvivesEnrollment ==
    \A t \in Workers :
        (Processed(t) /\ Scanned(t)
            /\ thread[t].finished = thread[t].started + 1)
            => thread[t].result \in
                   {LoopResult(thread[t].index, thread[t].image.emb),
                    LoopResult(thread[t].after, thread[t].image.emb)}

\* C28: a returned call is answered as a liveness failure exactly when a
\* face was found and its eye aspect ratio is not above the threshold: an
\* image without a face and an error inside the loop get another reason;
\* a live probe that no entry matches is answered "Face not recognized".
C28_RejectionsCarryTheirReason ==
    \A t \in Workers :
        Processed(t) =>
            LET f == thread[t]
            IN  /\ (f.response.message = "Liveness check failed")
                       <=> (f.image.face /\ f.image.ear <= LIVENESS_THRESHOLD)
                /\ (Scanned(t) /\ f.finished = f.started
                       /\ LoopResult(f.index, f.image.emb)
                              = PipelineResult(None, 0, TRUE))
                       => f.response.message = "Face not recognized"

\* C29: a step of process_attendance (detection, liveness, extraction, a
\* step of the loop, the return) leaves the cache entries with their
\* last_accessed values, the cache file and the index as they are.
C29_ScanLeavesCacheAlone ==
    [][thread' # thread => UNCHANGED <<cache, file, known_faces>>]_vars

\* C29 witness: a person was recognized against an index of two entries
\* while the cache held entries
C29_Witness ==
    \E t \in Workers :
        /\ Processed(t)
        /\ thread[t].result.employee_id # None
        /\ thread[t].pos = 2
        /\ Len(cache) = 2

-----------------------------------------------------------------------------
(* Further properties of the attendance handlers and of the matcher *)

\* a call of _extract_face_embedding that has returned
Extracted(t) ==
    thread[t].op = "_extract_face_embedding" /\ thread[t].pc = "returned"

\* C31: the vector extracted from a face has exactly EncodingDim
\* components; it is made of the landmarks in the order of key_indices (the
\* first key landmark that exists gives the leading components, cut to the
\* length), and of zeros when no key landmark exists.
C31_ExtractionFixedLength ==
    \A t \in Workers :
        (Extracted(t) /\ thread[t].multi_face_landmarks # <<>>) =>
            LET landmark == thread[t].multi_face_landmarks[1]
                v == thread[t].embedding_array
                present == {k \in 1 .. Len(key_indices) :
                               key_indices[k] <= Len(landmark)}
            IN  /\ Len(v) = EncodingDim
                /\ present = {} => \A n \in 1 .. EncodingDim : v[n] = 0
                /\ present # {} =>
                       LET k == CHOOSE k \in present : \A j \in present : k <= j
                           lm == landmark[key_indices[k]]
                       IN  v = Normalize(<<lm[1], lm[2]>>)

\* C31 witness: a face with both key landmarks gave the vector of the
\* landmark that key_indices names first, cut to the encoding length
C31_Witness ==
    \E t \in Workers :
        /\ Extracted(t)
        /\ Len(thread[t].multi_face_landmarks) = 1
        /\ Len(thread[t].multi_face_landmarks[1]) = 2
        /\ thread[t].embedding_array = <<4, 3>>
        /\ thread[t].multi_face_landmarks[1][1] # <<4, 3, 5>>

\* C32: a step of absen leaves the status of every existing record as it
\* is, and a record it creates has status HADIR or TERLAMBAT; IZIN, ALPA and
\* DITOLAK are never written by it, and a rejection writes no record.
C32_AbsenWritesPresentOrLate ==
    [][pc' # pc =>
           \A b \in attendances' :
               \/ \E a \in attendances : a.id = b.id /\ a.status = b.status
               \/ b.status \in {"HADIR", "TERLAMBAT"}]_vars

\* C32 witness: the table holds a leave record and a record checked in by
\* absen
C32_Witness ==
    \E a, b \in attendances :
        /\ a.status = "IZIN"
        /\ b.status = "HADIR"
        /\ b.check_in # None

\* C33: when several entries have the returned similarity, the identity
\* returned is that of the first of them in the order of the index.
C33_FirstOfEqualsWins ==
    \A t \in Workers :
        (Recognized(t) /\ thread[t].best.id # None) =>
            LET top == {i \in 1 .. Len(known_faces) :
                           SimilarityOf(t, i) = thread[t].best.similarity}
            IN  /\ top # {}
                /\ \E i \in top :
                       /\ known_faces[i].id = thread[t].best.id
                       /\ \A j \in top : i <= j

\* C33 witness: two entries share the returned similarity
C33_Witness ==
    \E t \in Workers :
        /\ Recognized(t)
        /\ thread[t].best.id # None
        /\ Len(known_faces) = 2
        /\ SimilarityOf(t, 1) = SimilarityOf(t, 2)
        /\ thread[t].best.id = known_faces[1].id

\* C38: a check-out leaves check_in, status, similarity, liveness_ok,
\* employee_id and tanggal of the day's record, and every other record, as
\* they were.
C38_CheckOutFrame ==
    [][\A w \in Workers, geo \in GeoForms :
           (SeenCheckedIn(w) /\ AbsenCommit(w, geo[1], geo[2]))
           => /\ \A b \in attendances' :
                     \E a \in attendances :
                         /\ a.id = b.id
                         /\ a.check_in = b.check_in
                         /\ a.status = b.status
                         /\ a.similarity = b.similarity
                         /\ a.liveness_ok = b.liveness_ok
                         /\ a.employee_id = b.employee_id
                         /\ a.tanggal = b.tanggal
                         /\ b.id # Seen(w).id => b = a
              /\ Cardinality(attendances') = Cardinality(attendances)]_vars

\* C38 witness: a record checked in at one time and out at a later one
C38_Witness ==
    /\ response.action = "CHECK_OUT"
    /\ \E a \in attendances :
           /\ a.check_in # None
           /\ a.check_out # None
           /\ a.check_in < a.check_out
           /\ a.similarity > 0


\* C35: when restore reports success, every identity in memory afterwards is
\* an identity of the backup file: no entry that was in memory only survives.
C35_RestoreReplacesMemory ==
    [][(outcome'.op = "restore" /\ outcome'.ok /\ clock' # clock) =>
           Keys(cache') \subseteq Keys(FileEntries(backup, clock))]_vars


\* what the eviction order depends on: identity, vector and last_accessed
\* of every entry
Stamps(c) ==
    {[employee_id |-> c[i].employee_id, encoding |-> c[i].encoding,
      last_accessed |-> c[i].last_accessed] : i \in 1 .. Len(c)}

\* a process starting now would load what this one has in memory
InSync(c, f, now) == Stamps(_load_cache(<<>>, f, now).cache) = Stamps(c)

\* C36: add, get and remove keep the file in step with the memory: if a
\* reload would have given the in-memory identities, vectors and
\* last_accessed values before the call, it gives them after the call too.
C36_RestartRoundTrip ==
    [][(outcome'.op \in {"add", "get", "remove"} /\ clock' # clock
            /\ InSync(cache, file, clock)) =>
           InSync(cache', file', clock')]_vars


\* C34: update never creates an entry: when the write of update takes
\* effect, the identity is still in the cache (a remove of it that
\* completed in between makes update report not-found instead).
C34_UpdateNeverCreates ==
    [][\A t \in Workers :
           (thread[t].op = "update" /\ thread[t].pc = "mutate"
                /\ thread'[t].pc = "save") =>
               thread[t].employee_id \in Keys(cache)]_vars


\* C37: every call of the cache returns, and the lock is free again after
\* it: a thread in a call is eventually outside it, a held lock is
\* eventually free, and a thread outside every call does not hold the lock.
C37_CallsReturnAndRelease ==
    /\ \A t \in Workers : (thread[t].pc # "idle") ~> (thread[t].pc = "idle")
    /\ (lock # None) ~> (lock = None)
    /\ [](\A t \in Workers : thread[t].pc = "idle" => lock # t)

\* C37 witness: a thread is three blocks deep (get, remove, _save_cache)
\* while another thread waits for the lock
C37_Witness ==
    \E t, u \in Workers :
        /\ thread[t].stack = <<"get", "remove", "_save_cache">>
        /\ lock = t
        /\ thread[u].pc = "enter" /\ thread[u].stack = <<>>

====
